---- MODULE Spec2Model ----
(***************************************************************************)
(* Model of the router auto-connect background script                      *)
(* (src/Chrome+Opera/background.js): the onBeforeNavigate listener, the    *)
(* five checkPort probes it starts, the processedTabs lock set and the     *)
(* timers that delete from it.                                             *)
(*                                                                         *)
(* JavaScript strings are sequences of one-character strings here, so that *)
(* split, parseInt, startsWith, the template literals and URL parsing are  *)
(* computed on characters.  32-bit values are pairs of 16-bit halves.      *)
(***************************************************************************)
EXTENDS Integers, Sequences, FiniteSets, TLC

\* ------------------------------------------------------------ constants

\* const SCAN_TIMEOUT = 1200
SCAN_TIMEOUT == 1200

\* the literal delay of setTimeout(() => processedTabs.delete(lockKey), 5000)
COOLDOWN == 5000

\* ---------------------------------------------------------------- bounds

\* navigation events delivered to the listener in one run
MaxNavs == 3

\* navigation events of a run in which the network changes between scans
MaxReloads == 4

\* navigation events of a run in which the user names a candidate's port
MaxDirect == 2

\* navigation events of a run in which the user names a scheme and a port
MaxGate == 2

\* navigation events of a run to addresses at the edges of the target ranges
MaxAddr == 2

\* navigation events of a run in which some URLs cannot be parsed
MaxBad == 3

\* navigation events of a run against any behaviour of the five endpoints
MaxAny == 2

\* navigation events of a run in which the network fixes the completion order
MaxOrder == 2

\* navigation events of a run that can take every return of the listener
MaxPaths == 2

\* the clock stops accepting new navigation events after this instant (ms)
MaxTime == 10000

\* listener invocations that may be suspended in a scan at the same time
MaxScans == 2

\* the clock is observed at multiples of this step and at every deadline
TimeStep == COOLDOWN

\* the longest list of outcomes handed to the ranking on its own
MaxRankLen == 3

\* ------------------------------------------------------- string helpers

DigitChars == <<"0", "1", "2", "3", "4", "5", "6", "7", "8", "9">>

IsDigit(c) == \E d \in 1..10 : DigitChars[d] = c

DigitVal(c) == (CHOOSE d \in 1..10 : DigitChars[d] = c) - 1

\* String(n) for an integer: its decimal digits, after a minus sign when n < 0
RECURSIVE ToStr(_)
ToStr(n) == IF n < 0 THEN <<"-">> \o ToStr(0 - n)
            ELSE IF n < 10 THEN <<DigitChars[n + 1]>>
            ELSE Append(ToStr(n \div 10), DigitChars[(n % 10) + 1])

\* s.startsWith(p)
startsWith(s, p) == /\ Len(p) <= Len(s)
                    /\ \A i \in 1..Len(p) : s[i] = p[i]

\* the first index >= from at which one of the characters cs occurs, 0 if none
RECURSIVE IndexOfAny(_, _, _)
IndexOfAny(s, cs, from) ==
    IF from > Len(s) THEN 0
    ELSE IF s[from] \in cs THEN from
    ELSE IndexOfAny(s, cs, from + 1)

\* s.split(sep) for a one-character separator
RECURSIVE split(_, _)
split(s, sep) ==
    LET i == IndexOfAny(s, {sep}, 1)
    IN  IF i = 0 THEN <<s>>
        ELSE <<SubSeq(s, 1, i - 1)>> \o split(SubSeq(s, i + 1, Len(s)), sep)

\* parseInt(str, 10) on a string of decimal digits
RECURSIVE parseInt(_)
parseInt(str) ==
    IF Len(str) = 0 THEN 0
    ELSE 10 * parseInt(SubSeq(str, 1, Len(str) - 1)) + DigitVal(str[Len(str)])

\* ------------------------------------------------------ 32-bit integers

\* a 32-bit pattern is [hi |-> bits 31..16, lo |-> bits 15..0]
Word(hi, lo) == [hi |-> hi, lo |-> lo]

\* (acc << 8) on the 32-bit pattern of acc: the top byte is shifted out
Shl8(acc) == Word((acc.hi % 256) * 256 + (acc.lo \div 256), (acc.lo % 256) * 256)

\* acc + v modulo 2^32, for 0 <= v < 65536
AddSmall(acc, v) ==
    LET lo == acc.lo + v
    IN  Word((acc.hi + (lo \div 65536)) % 65536, lo % 65536)

\* unsigned comparison of two 32-bit patterns (the values after >>> 0)
ULeq(a, b) == a.hi < b.hi \/ (a.hi = b.hi /\ a.lo <= b.lo)

\* ip.split('.').reduce((acc, octet) => (acc << 8) + parseInt(octet, 10), 0) >>> 0
RECURSIVE ipReduce(_, _)
ipReduce(parts, k) ==
    IF k = 0 THEN Word(0, 0)
    ELSE AddSmall(Shl8(ipReduce(parts, k - 1)), parseInt(parts[k]))

ipToLong(ip) == LET parts == split(ip, ".") IN ipReduce(parts, Len(parts))

\* /^(\d{1,3}\.){3}\d{1,3}$/.test(hostname)
IsIPv4Pattern(hostname) ==
    LET parts == split(hostname, ".")
    IN  /\ Len(parts) = 4
        /\ \A i \in 1..4 : /\ Len(parts[i]) \in 1..3
                           /\ \A j \in 1..Len(parts[i]) : IsDigit(parts[i][j])

r1Start == ipToLong(<<"1","0","0",".","6","0",".","0",".","0">>)
r1End == ipToLong(<<"1","0","0",".","8","0",".","0",".","0">>)
r2Start == ipToLong(<<"5",".","1","9","7",".","0",".","0">>)
r2End   == ipToLong(<<"5",".","1","9","7",".","2","5","5",".","2","5","5">>)

\* a wrong range test: the upper bounds are excluded
isTargetIp_OpenEnd(hostname) ==
    IF ~IsIPv4Pattern(hostname) THEN FALSE
    ELSE LET longIp == ipToLong(hostname)
         IN  \/ (ULeq(r1Start, longIp) /\ ULeq(longIp, r1End) /\ longIp # r1End)
             \/ (ULeq(r2Start, longIp) /\ ULeq(longIp, r2End) /\ longIp # r2End)

isTargetIp(hostname) ==
    IF ~IsIPv4Pattern(hostname) THEN FALSE
    ELSE LET longIp == ipToLong(hostname)
         IN  \/ (ULeq(r1Start, longIp) /\ ULeq(longIp, r1End))
             \/ (ULeq(r2Start, longIp) /\ ULeq(longIp, r2End))

\* ------------------------------------------------------------------ URLs

HTTP == <<"h", "t", "t", "p", ":">>
HTTPS == <<"h", "t", "t", "p", "s", ":">>

\* ---- characters

UpperChars == <<"A", "B", "C", "D", "E", "F", "G", "H", "I", "J", "K", "L", "M",
                "N", "O", "P", "Q", "R", "S", "T", "U", "V", "W", "X", "Y", "Z">>
LowerChars == <<"a", "b", "c", "d", "e", "f", "g", "h", "i", "j", "k", "l", "m",
                "n", "o", "p", "q", "r", "s", "t", "u", "v", "w", "x", "y", "z">>

\* the printable ASCII characters, from U+0020 to U+007E in code order;
\* U+0060 is written as the head of a two-character string
AsciiChars ==
    <<" ", "!", "\"", "#", "$", "%", "&", "'", "(", ")", "*", "+", ",", "-", ".", "/">>
    \o DigitChars \o <<":", ";", "<", "=", ">", "?", "@">>
    \o UpperChars \o <<"[", "\\", "]", "^", "_", Head("`'")>>
    \o LowerChars \o <<"{", "|", "}", "~">>

UpperSet == {UpperChars[k] : k \in 1..26}
DigitSet == {DigitChars[k] : k \in 1..10}
AlphaSet == UpperSet \cup {LowerChars[k] : k \in 1..26}

\* F applied to the value of v, which is computed once
With(v, F(_)) == CHOOSE r \in {F(x) : x \in {v}} : TRUE

\* ASCII lowercase of a character and of a string
ToLower(c) == IF c \in UpperSet THEN LowerChars[CHOOSE k \in 1..26 : UpperChars[k] = c]
              ELSE c

LowerCase(s) == [k \in 1..Len(s) |-> ToLower(s[k])] \o <<>>

HexChars == DigitChars \o <<"a", "b", "c", "d", "e", "f">>

HexSet == DigitSet \cup {"a", "b", "c", "d", "e", "f", "A", "B", "C", "D", "E", "F"}

\* the value of a hexadecimal digit, 16 for any other character
HexVal(c) == IF c \in HexSet THEN (CHOOSE k \in 1..16 : HexChars[k] = ToLower(c)) - 1
             ELSE 16

\* the character at position p, the empty string past the end of the input
At(s, p) == IF p >= 1 /\ p <= Len(s) THEN s[p] ELSE ""

\* the last index of character c in s, 0 if none
RECURSIVE LastIndexOf(_, _, _)
LastIndexOf(s, c, from) ==
    IF from < 1 THEN 0
    ELSE IF s[from] = c THEN from
    ELSE LastIndexOf(s, c, from - 1)

\* the number of characters from p on that are in cs, at most max
RECURSIVE RunOf(_, _, _, _)
RunOf(s, p, cs, max) ==
    IF max = 0 \/ p > Len(s) \/ s[p] \notin cs THEN 0
    ELSE 1 + RunOf(s, p + 1, cs, max - 1)

\* the number of characters from p back that are in cs
RECURSIVE RunBack(_, _, _)
RunBack(s, p, cs) ==
    IF p < 1 \/ s[p] \notin cs THEN 0
    ELSE 1 + RunBack(s, p - 1, cs)

\* a failed parse; new URL throws a TypeError
Failure == [ok |-> FALSE, protocol |-> <<>>, hostname |-> <<>>, port |-> <<>>]

\* a failed host parse
NoHost == [ok |-> FALSE, host |-> <<>>]

\* ---- schemes

FTP == <<"f", "t", "p", ":">>
WS == <<"w", "s", ":">>
WSS == <<"w", "s", "s", ":">>
FILE == <<"f", "i", "l", "e", ":">>

\* the special schemes
SpecialSchemes == {HTTP, HTTPS, FTP, WS, WSS, FILE}

\* the default port of a special scheme, -1 when the scheme has none
DefaultPort(protocol) ==
    IF protocol \in {HTTP, WS} THEN 80
    ELSE IF protocol \in {HTTPS, WSS} THEN 443
    ELSE IF protocol = FTP THEN 21
    ELSE -1

AllDigits(s) == \A j \in 1..Len(s) : IsDigit(s[j])

\* ---- the IPv4 parser

\* n * R + d on a number of the IPv4 parser, R <= 16; a number is a 32-bit
\* pattern and whether it overflowed
MulAdd(n, R, d) ==
    LET lo == n.lo * R + d
        hi == n.hi * R + (lo \div 65536)
    IN  [hi |-> hi % 65536, lo |-> lo % 65536, over |-> n.over \/ hi >= 65536]

\* the value of the first k digits of s in radix R
RECURSIVE RadixValue(_, _, _)
RadixValue(s, R, k) ==
    IF k = 0 THEN [hi |-> 0, lo |-> 0, over |-> FALSE]
    ELSE With(RadixValue(s, R, k - 1), LAMBDA n : MulAdd(n, R, HexVal(s[k])))

\* the IPv4 number parser: 0x is hexadecimal, a leading 0 is octal
IPv4Number(part) ==
    LET hex == Len(part) >= 2 /\ part[1] = "0" /\ part[2] \in {"x", "X"}
        oct == ~hex /\ Len(part) >= 2 /\ part[1] = "0"
        R == IF hex THEN 16 ELSE IF oct THEN 8 ELSE 10
        from == IF hex THEN 3 ELSE IF oct THEN 2 ELSE 1
    IN  IF Len(part) = 0 THEN [ok |-> FALSE, n |-> [hi |-> 0, lo |-> 0, over |-> FALSE]]
        ELSE IF \E k \in from..Len(part) : HexVal(part[k]) >= R
        THEN [ok |-> FALSE, n |-> [hi |-> 0, lo |-> 0, over |-> FALSE]]
        ELSE [ok |-> TRUE,
              n |-> With(SubSeq(part, from, Len(part)),
                         LAMBDA digits : RadixValue(digits, R, Len(digits)))]

\* the parts of a domain between its dots, an empty last part dropped
DotParts(domain) ==
    With(split(domain, "."),
         LAMBDA parts : IF Len(parts) > 1 /\ parts[Len(parts)] = <<>>
                        THEN SubSeq(parts, 1, Len(parts) - 1) ELSE parts)

\* the ends-in-a-number checker on the parts of a domain
EndsInNumber(parts) ==
    /\ parts[Len(parts)] # <<>>
    /\ AllDigits(parts[Len(parts)]) \/ IPv4Number(parts[Len(parts)]).ok

\* the four bytes of the address that the numbers nums stand for, the last
\* number filling the bytes the others leave, or failure
IPv4Bytes(nums) ==
    LET size == Len(nums)
        last == nums[size].n
        fits == /\ ~last.over
                /\ size >= 2 => last.hi < 256
                /\ size >= 3 => last.hi = 0
                /\ size = 4 => last.lo < 256
    IN  IF \E k \in 1..size : ~nums[k].ok THEN NoHost
        ELSE IF \E k \in 1..(size - 1) :
                   nums[k].n.over \/ nums[k].n.hi > 0 \/ nums[k].n.lo > 255
        THEN NoHost
        ELSE IF ~fits THEN NoHost
        ELSE [ok |-> TRUE,
              host |-> [k \in 1..4 |->
                          IF k < size THEN nums[k].n.lo
                          ELSE <<last.hi \div 256, last.hi % 256,
                                 last.lo \div 256, last.lo % 256>>[k]]]

\* the IPv4 parser followed by the IPv4 serializer: the dotted quad, or failure
IPv4Parse(parts) ==
    IF Len(parts) > 4 THEN NoHost
    ELSE With(With([k \in 1..Len(parts) |-> IPv4Number(parts[k])] \o <<>>, IPv4Bytes),
              LAMBDA b : IF ~b.ok THEN NoHost
                         ELSE [ok |-> TRUE,
                               host |-> ToStr(b.host[1]) \o <<".">> \o ToStr(b.host[2])
                                          \o <<".">> \o ToStr(b.host[3])
                                          \o <<".">> \o ToStr(b.host[4])])

\* ---- the IPv6 parser

\* the value of the n hexadecimal digits of s from p on, n <= 4
RECURSIVE HexValue(_, _, _)
HexValue(s, p, n) ==
    IF n = 0 THEN 0 ELSE 16 * HexValue(s, p, n - 1) + HexVal(s[p + n - 1])

V6Fail == [ok |-> FALSE, addr |-> <<>>, pi |-> 0, compress |-> -1]

\* the pieces addr with v put in piece pi (counted from 0)
SetPiece(addr, pi, v) == [k \in 1..8 |-> IF k = pi + 1 THEN v ELSE addr[k]]

\* the dotted-decimal tail of an IPv6 address, read from p into the pieces
\* from pieceIndex pi on; seen is the count of numbers read so far
RECURSIVE V4InV6(_, _, _, _, _, _)
V4InV6(s, p, addr, pi, seen, compress) ==
    IF p > Len(s)
    THEN IF seen = 4 THEN [ok |-> TRUE, addr |-> addr, pi |-> pi, compress |-> compress]
         ELSE V6Fail
    ELSE IF seen > 0 /\ ~(s[p] = "." /\ seen < 4) THEN V6Fail
    ELSE LET q == IF seen > 0 THEN p + 1 ELSE p
             r == RunOf(s, q, DigitSet, 4)
         IN  IF r = 0 \/ r > 3 THEN V6Fail
             ELSE IF r > 1 /\ s[q] = "0" THEN V6Fail
             ELSE IF parseInt(SubSeq(s, q, q + r - 1)) > 255 THEN V6Fail
             ELSE \* the arguments of the next round, as values
                  With(<<q + r,
                         SetPiece(addr, pi, addr[pi + 1] * 256 + parseInt(SubSeq(s, q, q + r - 1))),
                         IF seen + 1 \in {2, 4} THEN pi + 1 ELSE pi>>,
                       LAMBDA a : V4InV6(s, a[1], a[2], a[3], seen + 1, compress))

\* the main loop of the IPv6 parser from pointer p: addr are the eight
\* pieces, pi the pieceIndex, compress the piece index of "::" or -1
RECURSIVE V6Loop(_, _, _, _, _)
V6Loop(s, p, addr, pi, compress) ==
    IF p > Len(s) THEN [ok |-> TRUE, addr |-> addr, pi |-> pi, compress |-> compress]
    ELSE IF pi = 8 THEN V6Fail
    ELSE IF s[p] = ":"
    THEN IF compress # -1 THEN V6Fail
         ELSE V6Loop(s, p + 1, addr, pi + 1, pi + 1)
    ELSE With(RunOf(s, p, HexSet, 4),
              LAMBDA n :
                 IF At(s, p + n) = "."
                 THEN IF n = 0 \/ pi > 6 THEN V6Fail
                      ELSE V4InV6(s, p, addr, pi, 0, compress)
                 ELSE IF At(s, p + n) = ":"
                 THEN IF p + n + 1 > Len(s) THEN V6Fail
                      ELSE With(<<p + n + 1, SetPiece(addr, pi, HexValue(s, p, n)), pi + 1>>,
                                LAMBDA a : V6Loop(s, a[1], a[2], a[3], compress))
                 ELSE IF p + n <= Len(s) THEN V6Fail
                 ELSE [ok |-> TRUE, addr |-> SetPiece(addr, pi, HexValue(s, p, n)),
                       pi |-> pi + 1, compress |-> compress])

\* the pieces after the loop: those after "::" moved to the end
V6Finish(r) ==
    IF ~r.ok THEN V6Fail
    ELSE IF r.compress = -1
    THEN IF r.pi = 8 THEN r ELSE V6Fail
    ELSE [ok |-> TRUE, pi |-> 8, compress |-> r.compress,
          addr |-> [k \in 1..8 |->
                      IF k <= r.compress THEN r.addr[k]
                      ELSE IF k <= 8 - (r.pi - r.compress) THEN 0
                      ELSE r.addr[k - (8 - r.pi)]]]

\* the IPv6 parser: the eight pieces of the address, or failure
IPv6Pieces(s) ==
    With(IF At(s, 1) = ":"
         THEN IF At(s, 2) # ":" THEN V6Fail
              ELSE V6Loop(s, 3, <<0, 0, 0, 0, 0, 0, 0, 0>>, 1, 1)
         ELSE V6Loop(s, 1, <<0, 0, 0, 0, 0, 0, 0, 0>>, 0, -1),
         V6Finish)

\* the shortest lowercase hexadecimal form of n
RECURSIVE ToHex(_)
ToHex(n) == IF n < 16 THEN <<HexChars[n + 1]>>
            ELSE Append(ToHex(n \div 16), HexChars[(n % 16) + 1])

\* the length of the run of zero pieces that starts at piece k
RECURSIVE ZeroRun(_, _)
ZeroRun(addr, k) == IF k > 8 \/ addr[k] # 0 THEN 0 ELSE 1 + ZeroRun(addr, k + 1)

\* the pieces from..to in hexadecimal, each but the eighth followed by a colon
RECURSIVE HexPieces(_, _, _)
HexPieces(addr, from, to) ==
    IF from > to THEN <<>>
    ELSE ToHex(addr[from]) \o (IF from < 8 THEN <<":">> ELSE <<>>)
           \o HexPieces(addr, from + 1, to)

\* the IPv6 serializer: the first longest run of two or more zero pieces
\* is written as "::"
IPv6Serialize(addr) ==
    With(CHOOSE m \in 0..8 : /\ \E k \in 1..8 : ZeroRun(addr, k) = m
                             /\ \A k \in 1..8 : ZeroRun(addr, k) <= m,
         LAMBDA longest :
            IF longest < 2 THEN HexPieces(addr, 1, 8)
            ELSE With(CHOOSE k \in 1..8 : /\ ZeroRun(addr, k) = longest
                                          /\ \A j \in 1..(k - 1) : ZeroRun(addr, j) < longest,
                      LAMBDA c : HexPieces(addr, 1, c - 1)
                                   \o (IF c = 1 THEN <<":", ":">> ELSE <<":">>)
                                   \o HexPieces(addr, c + longest, 8)))

\* ---- code points

\* the code of each character of a string of the model
CodeOf ==
    [c \in {AsciiChars[k] : k \in 1..95} \cup {"\t", "\n", "\f", "\r"} |->
        IF c = "\t" THEN 9 ELSE IF c = "\n" THEN 10 ELSE IF c = "\f" THEN 12
        ELSE IF c = "\r" THEN 13 ELSE 31 + (CHOOSE k \in 1..95 : AsciiChars[k] = c)]

\* percent-decode of a string from position p on, as bytes: %XX is the byte
\* XX, any other character the byte of its code
RECURSIVE PercentDecode(_, _)
PercentDecode(s, p) ==
    IF p > Len(s) THEN <<>>
    ELSE IF s[p] = "%" /\ p + 2 <= Len(s) /\ HexVal(s[p + 1]) < 16 /\ HexVal(s[p + 2]) < 16
    THEN <<16 * HexVal(s[p + 1]) + HexVal(s[p + 2])>> \o PercentDecode(s, p + 3)
    ELSE <<CodeOf[s[p]]>> \o PercentDecode(s, p + 1)

\* UTF-8 decode without BOM of the bytes b from position p on: the code
\* points, U+FFFD for every ill-formed sequence
RECURSIVE Utf8Decode(_, _)
Utf8Decode(b, p) ==
    LET lead == b[p]
        need == IF lead >= 194 /\ lead <= 223 THEN 1
                ELSE IF lead >= 224 /\ lead <= 239 THEN 2
                ELSE IF lead >= 240 /\ lead <= 244 THEN 3 ELSE 0
        lower(k) == IF k = 1 /\ lead = 224 THEN 160 ELSE IF k = 1 /\ lead = 240 THEN 144 ELSE 128
        upper(k) == IF k = 1 /\ lead = 237 THEN 159 ELSE IF k = 1 /\ lead = 244 THEN 143 ELSE 191
        bad == {k \in 1..need : p + k > Len(b) \/ b[p + k] < lower(k) \/ b[p + k] > upper(k)}
        bits(k) == b[p + k] - 128
    IN  IF p > Len(b) THEN <<>>
        ELSE IF lead < 128 THEN <<lead>> \o Utf8Decode(b, p + 1)
        ELSE IF need = 0 THEN <<65533>> \o Utf8Decode(b, p + 1)
        ELSE IF bad # {}
        THEN With(CHOOSE k \in bad : \A j \in bad : k <= j,
                  LAMBDA k : <<65533>> \o Utf8Decode(b, p + k))
        ELSE IF need = 1 THEN <<(lead - 192) * 64 + bits(1)>> \o Utf8Decode(b, p + 2)
        ELSE IF need = 2
        THEN <<(lead - 224) * 4096 + bits(1) * 64 + bits(2)>> \o Utf8Decode(b, p + 3)
        ELSE <<(lead - 240) * 262144 + bits(1) * 4096 + bits(2) * 64 + bits(3)>>
               \o Utf8Decode(b, p + 4)

\* ---- Punycode (RFC 3492)

\* the threshold of the digit at position k under a bias
PunyThreshold(k, bias) == IF k <= bias THEN 1 ELSE IF k >= bias + 26 THEN 26 ELSE k - bias

\* the bias adaptation function
PunyAdapt(delta, numpoints, first) ==
    LET RECURSIVE scale(_, _)
        scale(d, k) == IF d > 455 THEN scale(d \div 35, k + 36)
                       ELSE k + (36 * d) \div (d + 38)
    IN  With(IF first THEN delta \div 700 ELSE delta \div 2,
             LAMBDA d : scale(d + (d \div numpoints), 0))

\* the Punycode encoding of the code points of a label, as ASCII codes
PunyEncode(label) ==
    LET basic == SelectSeq(label, LAMBDA c : c < 128)
        b == Len(basic)
        digit(d) == IF d < 26 THEN 97 + d ELSE 22 + d
        \* q as a generalized variable-length integer
        RECURSIVE varint(_, _, _)
        varint(q, k, bias) ==
            With(PunyThreshold(k, bias),
                 LAMBDA t :
                    IF q < t THEN <<digit(q)>>
                    ELSE With((q - t) \div (36 - t),
                              LAMBDA q2 : <<digit(t + ((q - t) % (36 - t)))>>
                                            \o varint(q2, k + 36, bias)))
        \* the pass over the label for code point n, from position j on;
        \* st is <<delta, bias, h, output>>
        RECURSIVE pass(_, _, _)
        pass(n, j, st) ==
            IF j > Len(label) THEN st
            ELSE With(IF label[j] < n THEN <<st[1] + 1, st[2], st[3], st[4]>>
                      ELSE IF label[j] = n
                      THEN <<0, PunyAdapt(st[1], st[3] + 1, st[3] = b), st[3] + 1,
                             st[4] \o varint(st[1], 36, st[2])>>
                      ELSE st,
                      LAMBDA st2 : pass(n, j + 1, st2))
        \* the main loop from code point n on
        RECURSIVE main(_, _)
        main(n, st) ==
            IF st[3] >= Len(label) THEN st[4]
            ELSE With(CHOOSE m \in {label[j] : j \in 1..Len(label)} :
                         /\ m >= n
                         /\ \A j \in 1..Len(label) : label[j] >= n => m <= label[j],
                      LAMBDA m :
                         With(pass(m, 1, <<st[1] + (m - n) * (st[3] + 1), st[2], st[3], st[4]>>),
                              LAMBDA r : With(<<r[1] + 1, r[2], r[3], r[4]>>,
                                              LAMBDA st2 : main(m + 1, st2))))
    IN  main(128, <<0, 72, b, IF b > 0 THEN basic \o <<45>> ELSE <<>>>>)

\* the Punycode decoding of a string of ASCII codes: the code points, or
\* failure.  The last hyphen of the string is the delimiter, also when it is
\* the first character: the basic code points are then none.  A delta that
\* puts a code point above U+10FFFF is a failure.
PunyDecode(input) ==
    LET fail == [ok |-> FALSE, cps |-> <<>>]
        d == LastIndexOf(input, 45, Len(input))
        digitOf(c) == IF c >= 97 /\ c <= 122 THEN c - 97
                      ELSE IF c >= 65 /\ c <= 90 THEN c - 65
                      ELSE IF c >= 48 /\ c <= 57 THEN c - 22 ELSE 36
        \* the generalized variable-length integer at position p, added to i
        \* with weight w: <<read, i, position after it>>; max is the largest
        \* i that gives a code point
        RECURSIVE varint(_, _, _, _, _, _)
        varint(p, i, w, k, bias, max) ==
            IF p > Len(input) THEN <<FALSE, 0, 0>>
            ELSE With(<<digitOf(input[p]), PunyThreshold(k, bias)>>,
                      LAMBDA dt :
                         IF dt[1] >= 36 THEN <<FALSE, 0, 0>>
                         ELSE IF dt[1] > 0 /\ w > (max - i) \div dt[1] THEN <<FALSE, 0, 0>>
                         ELSE IF dt[1] < dt[2] THEN <<TRUE, i + dt[1] * w, p + 1>>
                         ELSE With(<<i + dt[1] * w,
                                     IF w > max \div (36 - dt[2]) THEN max + 1
                                     ELSE w * (36 - dt[2])>>,
                                   LAMBDA iw : varint(p + 1, iw[1], iw[2], k + 36, bias, max)))
        \* the main loop from position p on
        RECURSIVE main(_, _, _, _, _)
        main(p, n, i, bias, out) ==
            IF p > Len(input) THEN [ok |-> TRUE, cps |-> out]
            ELSE With(varint(p, i, 1, 36, bias, 1114112 * (Len(out) + 1) + Len(out)),
                      LAMBDA r :
                         IF ~r[1] THEN fail
                         ELSE With(<<n + (r[2] \div (Len(out) + 1)), r[2] % (Len(out) + 1),
                                     PunyAdapt(r[2] - i, Len(out) + 1, i = 0)>>,
                                   LAMBDA a :
                                      IF a[1] > 1114111 THEN fail
                                      ELSE With(SubSeq(out, 1, a[2]) \o <<a[1]>>
                                                  \o SubSeq(out, a[2] + 1, Len(out)),
                                                LAMBDA out2 :
                                                   main(r[3], a[1], a[2] + 1, a[3], out2))))
    IN  main(d + 1, 128, 0, 72, SubSeq(input, 1, d - 1))

\* ---- domain to ASCII (UTS #46 with CheckHyphens, UseSTD3ASCIIRules,
\* Transitional_Processing and VerifyDnsLength false)

\* the code points of the model: ASCII, Latin-1 without the four spacing
\* diacritics, the fullwidth forms of ASCII, the ideographic full stops,
\* U+FFFD, and the images of those under the mapping
CodePoints ==
    ((0..255) \ {168, 175, 180, 184}) \cup (65281..65374)
      \cup {956, 8260, 12290, 65377, 65533}

\* the IDNA mapping table on those code points: the code points that cp is
\* mapped to (none when cp is ignored, cp itself when cp is valid), <<-1>>
\* when cp is disallowed
IdnaMap ==
    [cp \in CodePoints |->
        IF cp >= 65 /\ cp <= 90 THEN <<cp + 32>>
        ELSE IF cp < 128 THEN <<cp>>
        ELSE IF cp < 160 \/ cp = 65533 THEN <<-1>>
        ELSE IF cp = 160 THEN <<32>>
        ELSE IF cp = 170 THEN <<97>>
        ELSE IF cp = 173 THEN <<>>
        ELSE IF cp = 178 THEN <<50>>
        ELSE IF cp = 179 THEN <<51>>
        ELSE IF cp = 181 THEN <<956>>
        ELSE IF cp = 185 THEN <<49>>
        ELSE IF cp = 186 THEN <<111>>
        ELSE IF cp = 188 THEN <<49, 8260, 52>>
        ELSE IF cp = 189 THEN <<49, 8260, 50>>
        ELSE IF cp = 190 THEN <<51, 8260, 52>>
        ELSE IF cp >= 192 /\ cp <= 222 /\ cp # 215 THEN <<cp + 32>>
        ELSE IF cp \in {12290, 65377} THEN <<46>>
        ELSE IF cp >= 65313 /\ cp <= 65338 THEN <<cp - 65216>>
        ELSE IF cp >= 65281 /\ cp <= 65374 THEN <<cp - 65248>>
        ELSE <<cp>>]

\* domain to ASCII of a string of code points: the ASCII codes, or failure
DomainToAscii(domain) ==
    LET fail == [ok |-> FALSE, host |-> <<>>]
        xn == <<120, 110, 45, 45>>
        RECURSIVE mapped(_)
        mapped(p) == IF p > Len(domain) THEN <<>>
                     ELSE IdnaMap[domain[p]] \o mapped(p + 1)
        ascii(l) == \A k \in 1..Len(l) : l[k] < 128
        \* the validity criteria: every code point is valid; a string of
        \* valid code points of the model is in Normalization Form C
        valid(l) == \A k \in 1..Len(l) : IdnaMap[l[k]] = <<l[k]>>
        \* one label: [ok, host].  A label that starts with xn-- is kept as
        \* it is when its decoding is not empty and valid, be it all ASCII
        label(l) ==
            IF startsWith(l, xn)
            THEN IF ~ascii(l) THEN fail
                 ELSE With(PunyDecode(SubSeq(l, 5, Len(l))),
                           LAMBDA u : IF u.ok /\ Len(u.cps) > 0 /\ valid(u.cps)
                                      THEN [ok |-> TRUE, host |-> l] ELSE fail)
            ELSE IF ~valid(l) THEN fail
            ELSE IF ascii(l) THEN [ok |-> TRUE, host |-> l]
            ELSE [ok |-> TRUE, host |-> xn \o PunyEncode(l)]
        \* the labels from the k-th on, joined by full stops
        RECURSIVE join(_, _)
        join(ls, k) ==
            With(label(ls[k]),
                 LAMBDA a :
                    IF ~a.ok THEN fail
                    ELSE IF k = Len(ls) THEN a
                    ELSE With(join(ls, k + 1),
                              LAMBDA rest : IF ~rest.ok THEN fail
                                            ELSE [ok |-> TRUE,
                                                  host |-> a.host \o <<46>> \o rest.host]))
    IN  With(mapped(1),
             LAMBDA m : IF \E k \in 1..Len(m) : m[k] = -1 THEN fail
                        ELSE With(split(m, 46), LAMBDA ls : join(ls, 1)))

\* ---- the host parser

\* the forbidden host code points among the characters of the model
ForbiddenHost ==
    {" ", "#", "/", ":", "<", ">", "?", "@", "[", "\\", "]", "^", "|", "\t", "\n", "\r"}

\* the codes of the forbidden domain code points: the forbidden host code
\* points, the C0 controls, "%" and U+007F
ForbiddenDomain ==
    (0..32) \cup {35, 37, 47, 58, 60, 62, 63, 64, 91, 92, 93, 94, 124, 127}

\* the C0 control percent-encode set applied to an opaque host from p on
RECURSIVE EncodeC0(_, _)
EncodeC0(s, p) ==
    IF p > Len(s) THEN <<>>
    ELSE (IF s[p] = "\f" THEN <<"%", "0", "C">> ELSE <<s[p]>>) \o EncodeC0(s, p + 1)

\* the host of a domain, given as the code points of its percent-decoded
\* form: its ASCII form, or an IPv4 address when that ends in a number
DomainHost(domain) ==
    With(DomainToAscii(domain),
         LAMBDA a :
            IF ~a.ok \/ Len(a.host) = 0 THEN NoHost
            ELSE IF \E k \in 1..Len(a.host) : a.host[k] \in ForbiddenDomain THEN NoHost
            ELSE With([k \in 1..Len(a.host) |-> AsciiChars[a.host[k] - 31]] \o <<>>,
                      LAMBDA asciiDomain :
                         With(DotParts(asciiDomain),
                              LAMBDA parts : IF EndsInNumber(parts) THEN IPv4Parse(parts)
                                             ELSE [ok |-> TRUE, host |-> asciiDomain])))

\* the host parser followed by the host serializer
HostParse(input, isOpaque) ==
    IF Len(input) > 0 /\ input[1] = "["
    THEN IF input[Len(input)] # "]" THEN NoHost
         ELSE With(With(SubSeq(input, 2, Len(input) - 1), IPv6Pieces),
                   LAMBDA a : IF ~a.ok THEN NoHost
                              ELSE [ok |-> TRUE,
                                    host |-> <<"[">> \o IPv6Serialize(a.addr) \o <<"]">>])
    ELSE IF isOpaque
    THEN IF \E k \in 1..Len(input) : input[k] \in ForbiddenHost THEN NoHost
         ELSE [ok |-> TRUE, host |-> EncodeC0(input, 1)]
    ELSE With(With(PercentDecode(input, 1), LAMBDA b : Utf8Decode(b, 1)), DomainHost)

\* ---- the URL parser

\* the first colon of s from p on that is outside square brackets, 0 if none
RECURSIVE ColonOutside(_, _, _)
ColonOutside(s, p, inside) ==
    IF p > Len(s) THEN 0
    ELSE IF s[p] = ":" /\ ~inside THEN p
    ELSE ColonOutside(s, p + 1, (s[p] = "[") \/ (inside /\ s[p] # "]"))

\* the value of the first k digits of s, 65536 for every value above 65535
RECURSIVE PortValue(_, _)
PortValue(s, k) ==
    IF k = 0 THEN 0
    ELSE With(10 * PortValue(s, k - 1) + DigitVal(s[k]),
              LAMBDA v : IF v > 65535 THEN 65536 ELSE v)

\* the URL of scheme protocol with the parsed host and the port string
HostAndPort(protocol, host, portStr) ==
    IF ~host.ok THEN Failure
    ELSE IF ~AllDigits(portStr) THEN Failure
    ELSE With(PortValue(portStr, Len(portStr)),
              LAMBDA port :
                 IF port > 65535 THEN Failure
                 ELSE [ok |-> TRUE, protocol |-> protocol, hostname |-> host.host,
                       port |-> IF Len(portStr) = 0 \/ port = DefaultPort(protocol)
                                THEN <<>> ELSE ToStr(port)])

\* host state and port state on the input after the credentials; sawAt tells
\* whether there were credentials
ParseHostPort(protocol, hostport, sawAt) ==
    With(ColonOutside(hostport, 1, FALSE),
         LAMBDA p :
            IF sawAt /\ Len(hostport) = 0 THEN Failure
            ELSE IF p = 1 THEN Failure
            ELSE IF p = 0 /\ Len(hostport) = 0 /\ protocol \in SpecialSchemes THEN Failure
            ELSE With(<<HostParse(IF p = 0 THEN hostport ELSE SubSeq(hostport, 1, p - 1),
                                  protocol \notin SpecialSchemes),
                        IF p = 0 THEN <<>> ELSE SubSeq(hostport, p + 1, Len(hostport))>>,
                      LAMBDA hp : HostAndPort(protocol, hp[1], hp[2])))

\* authority state on the input r that follows the slashes: the authority
\* ends before the first "/", "?" or "#" ("\" too in a special scheme), the
\* credentials end at its last "@"
ParseAuthority(protocol, r) ==
    With(With(IndexOfAny(r, IF protocol \in SpecialSchemes THEN {"/", "?", "#", "\\"}
                               ELSE {"/", "?", "#"}, 1),
              LAMBDA e : IF e = 0 THEN r ELSE SubSeq(r, 1, e - 1)),
         LAMBDA seg :
            With(LastIndexOf(seg, "@", Len(seg)),
                 LAMBDA at : With(SubSeq(seg, at + 1, Len(seg)),
                                  LAMBDA hostport : ParseHostPort(protocol, hostport, at > 0))))

\* a URL of scheme file: without a host
FileNoHost == [ok |-> TRUE, protocol |-> FILE, hostname |-> <<>>, port |-> <<>>]

\* file host state on the buffer that follows the two slashes
ParseFileHost(buffer) ==
    IF Len(buffer) = 0 THEN FileNoHost
    ELSE IF Len(buffer) = 2 /\ buffer[1] \in AlphaSet /\ buffer[2] \in {":", "|"}
    THEN FileNoHost
    ELSE With(HostParse(buffer, FALSE),
              LAMBDA host : IF ~host.ok THEN Failure
                            ELSE IF host.host = <<"l", "o", "c", "a", "l", "h", "o", "s", "t">> THEN FileNoHost
                            ELSE [FileNoHost EXCEPT !.hostname = host.host])

\* file state and file slash state on the input r that follows the scheme
ParseFile(r) ==
    IF RunOf(r, 1, {"/", "\\"}, 2) < 2 THEN FileNoHost
    ELSE With(With(IndexOfAny(r, {"/", "\\", "?", "#"}, 3),
                   LAMBDA e : IF e = 0 THEN SubSeq(r, 3, Len(r)) ELSE SubSeq(r, 3, e - 1)),
              ParseFileHost)

\* the input with its ASCII tabs and newlines removed and the leading and
\* trailing C0 controls and spaces stripped
Strip(str) ==
    With(IF \E k \in 1..Len(str) : str[k] \in {"\t", "\n", "\r"}
         THEN SelectSeq(str, LAMBDA c : c \notin {"\t", "\n", "\r"}) ELSE str,
         LAMBDA t :
            With(RunOf(t, 1, {" ", "\f"}, Len(t)),
                 LAMBDA lead :
                    IF lead = Len(t) THEN <<>>
                    ELSE SubSeq(t, lead + 1, Len(t) - RunBack(t, Len(t), {" ", "\f"}))))

\* the states after the scheme, on the input r that follows its colon
ParseAfterScheme(protocol, r) ==
    IF protocol = FILE THEN ParseFile(r)
    ELSE IF protocol \in SpecialSchemes
    THEN With(SubSeq(r, 1 + RunOf(r, 1, {"/", "\\"}, Len(r)), Len(r)),
              LAMBDA a : ParseAuthority(protocol, a))
    ELSE IF At(r, 1) = "/" /\ At(r, 2) = "/"
    THEN With(SubSeq(r, 3, Len(r)), LAMBDA a : ParseAuthority(protocol, a))
    ELSE [ok |-> TRUE, protocol |-> protocol, hostname |-> <<>>, port |-> <<>>]

\* scheme start state and scheme state on the stripped input s: the scheme
\* is a letter followed by letters, digits, "+", "-" and ".", up to a colon
ParseStripped(s) ==
    With(IndexOfAny(s, {":"}, 1),
         LAMBDA c :
            IF c <= 1 THEN Failure
            ELSE IF s[1] \notin AlphaSet THEN Failure
            ELSE IF \E k \in 2..(c - 1) : s[k] \notin AlphaSet \cup DigitSet \cup {"+", "-", "."}
            THEN Failure
            ELSE With(<<LowerCase(SubSeq(s, 1, c)), SubSeq(s, c + 1, Len(s))>>,
                      LAMBDA pr : ParseAfterScheme(pr[1], pr[2])))

\* new URL(str): [ok |-> FALSE] when the constructor throws, else the fields
\* the listener reads: protocol, hostname, and port ('' for the default port).
\* The input is a string of the characters of AsciiChars, tab, line feed,
\* carriage return and form feed; a host may hold the code points of
\* CodePoints as percent-encoded bytes.
ParseURL(str) == With(Strip(str), ParseStripped)

\* ---------------------------------------------------------------- probes

\* the checks list of the listener: the arguments of the five checkPort calls
checks == << [port |-> 443,  protocol |-> HTTPS],
             [port |-> 8080, protocol |-> HTTPS],
             [port |-> 8888, protocol |-> HTTPS],
             [port |-> 8080, protocol |-> HTTP],
             [port |-> 8888, protocol |-> HTTP] >>

NChecks == Len(checks)

\* a wrong URL: the colon between hostname and port is left out
targetUrl_NoColon(hostname, port, protocol) ==
    protocol \o <<"/", "/">> \o hostname \o ToStr(port)

\* const targetUrl = `${protocol}//${hostname}:${port}`
targetUrl(hostname, port, protocol) ==
    protocol \o <<"/", "/">> \o hostname \o <<":">> \o ToStr(port)

\* how the awaited fetch of one probe ends: it resolves with a response, it
\* rejects with the AbortError of controller.abort(), or it rejects otherwise
Settles == {"resolved", "AbortError", "TypeError"}

\* a wrong catch block: the scheme of the probe is not looked at
checkPortStatus_AnyScheme(protocol, how) ==
    IF how = "resolved" THEN "OPEN"
    ELSE IF how = "AbortError" THEN "CLOSED"
    ELSE "PROBABLY_OPEN_SSL"

\* the status checkPort returns when its fetch ends as `how`
checkPortStatus(protocol, how) ==
    IF how = "resolved" THEN "OPEN"
    ELSE IF how = "AbortError" THEN "CLOSED"
    ELSE IF protocol = HTTPS THEN "PROBABLY_OPEN_SSL"
    ELSE "CLOSED"

\* the object checkPort returns
checkPortResult(hostname, port, protocol, status) ==
    [url |-> targetUrl(hostname, port, protocol), protocol |-> protocol,
     port |-> port, status |-> status]

\* --------------------------------------------------------------- ranking

\* a wrong weight: OPEN is worth only 5 more than PROBABLY_OPEN_SSL
getWeight_NarrowGap(item) ==
    LET w1 == IF item.status = "OPEN" THEN 55
              ELSE IF item.status = "PROBABLY_OPEN_SSL" THEN 50 ELSE 0
        w2 == IF item.protocol = HTTPS THEN 10 ELSE 0
        w3 == IF item.port = 443 THEN 3
              ELSE IF item.port = 8080 THEN 2
              ELSE IF item.port = 8888 THEN 1 ELSE 0
    IN  w1 + w2 + w3

\* getWeight(item) of the sort comparator
getWeight(item) ==
    LET w1 == IF item.status = "OPEN" THEN 100
              ELSE IF item.status = "PROBABLY_OPEN_SSL" THEN 50 ELSE 0
        w2 == IF item.protocol = HTTPS THEN 10 ELSE 0
        w3 == IF item.port = 443 THEN 3
              ELSE IF item.port = 8080 THEN 2
              ELSE IF item.port = 8888 THEN 1 ELSE 0
    IN  w1 + w2 + w3

\* a wrong filter: every outcome is kept
filterActive_All(results) == results

\* results.filter(r => r.status === 'OPEN' || r.status === 'PROBABLY_OPEN_SSL')
RECURSIVE filterActive(_)
filterActive(results) ==
    IF Len(results) = 0 THEN <<>>
    ELSE LET r == Head(results)
             rest == filterActive(Tail(results))
         IN  IF r.status = "OPEN" \/ r.status = "PROBABLY_OPEN_SSL"
             THEN <<r>> \o rest ELSE rest

\* a wrong sort: an element is put before the elements of equal weight
RECURSIVE insertByWeight_Unstable(_, _)
insertByWeight_Unstable(sorted, x) ==
    IF Len(sorted) = 0 THEN <<x>>
    ELSE IF getWeight(x) - getWeight(Head(sorted)) >= 0 THEN <<x>> \o sorted
    ELSE <<Head(sorted)>> \o insertByWeight_Unstable(Tail(sorted), x)

\* insert x into a list sorted by descending weight, after every element whose
\* weight is not smaller (Array.prototype.sort is stable)
RECURSIVE insertByWeight(_, _)
insertByWeight(sorted, x) ==
    IF Len(sorted) = 0 THEN <<x>>
    ELSE IF getWeight(x) - getWeight(Head(sorted)) > 0 THEN <<x>> \o sorted
    ELSE <<Head(sorted)>> \o insertByWeight(Tail(sorted), x)

\* activePorts.sort((a, b) => getWeight(b) - getWeight(a))
RECURSIVE sortByWeight(_)
sortByWeight(list) ==
    IF Len(list) = 0 THEN <<>>
    ELSE insertByWeight(sortByWeight(SubSeq(list, 1, Len(list) - 1)), list[Len(list)])

\* ------------------------------------------------------------ environment

\* two hostnames inside the target ranges
Host1 == <<"5", ".", "1", "9", "7", ".", "0", ".", "1">>
Host2 == <<"1", "0", "0", ".", "7", "0", ".", "0", ".", "9">>

TargetHosts == {Host1, Host2}

\* what an endpoint does with the one fetch of a probe: it answers before the
\* deadline, it fails the connection or the TLS handshake, or it never answers
Behaviours == {"RESPOND", "ERROR", "HANG"}

\* the hosts a run may meet, by the behaviour of their five endpoints:
\* https 443 answers; only http 8080 answers cleanly; nothing is reachable
NetHttps == <<"RESPOND", "HANG", "ERROR", "HANG", "HANG">>
NetHttp == <<"ERROR", "HANG", "HANG", "RESPOND", "HANG">>
NetNone == <<"HANG", "HANG", "HANG", "ERROR", "HANG">>

\* the networks a run may be in
Networks ==
    { [h \in TargetHosts |-> IF h = Host1 THEN NetHttps ELSE NetHttp],
      [h \in TargetHosts |-> IF h = Host1 THEN NetHttp ELSE NetNone] }

Slash == <<"/">>

\* the details objects of the navigation events the user can cause
UserNavs ==
    { [tabId |-> 1, frameId |-> 0, url |-> HTTP \o <<"/", "/">> \o Host1 \o Slash],
      [tabId |-> 1, frameId |-> 0, url |-> HTTP \o <<"/", "/">> \o Host2 \o Slash] }

\* the details objects of navigations to plain-HTTP ports of Host1
DirectNavs ==
    { [tabId |-> 1, frameId |-> 0,
       url |-> HTTP \o <<"/", "/">> \o Host1 \o <<":", "8", "0", "8", "0">> \o Slash],
      [tabId |-> 1, frameId |-> 0,
       url |-> HTTP \o <<"/", "/">> \o Host1 \o <<":", "8", "8", "8", "8">> \o Slash] }

\* the details objects of navigations that name a scheme and a port of Host1
GateNavs ==
    { [tabId |-> 1, frameId |-> 0, url |-> FTP \o <<"/", "/">> \o Host1 \o Slash],
      [tabId |-> 1, frameId |-> 0, url |-> HTTPS \o <<"/", "/">> \o Host1 \o Slash],
      [tabId |-> 1, frameId |-> 0,
       url |-> HTTPS \o <<"/", "/">> \o Host1 \o <<":", "8", "8", "8", "8">> \o Slash],
      [tabId |-> 1, frameId |-> 0,
       url |-> HTTP \o <<"/", "/">> \o Host1 \o <<":", "8", "0", "8", "0">> \o Slash],
      [tabId |-> 1, frameId |-> 0, url |-> HTTP \o <<"/", "/">> \o Host1 \o Slash] }

\* the dotted quad of four octets
Quad(o1, o2, o3, o4) ==
    ToStr(o1) \o <<".">> \o ToStr(o2) \o <<".">> \o ToStr(o3) \o <<".">> \o ToStr(o4)

\* the first and last address of each range, and the addresses next to them
EdgeHosts ==
    { Quad(100, 60, 0, 0), Quad(100, 80, 0, 0), Quad(5, 197, 0, 0), Quad(5, 197, 255, 255),
      Quad(100, 59, 255, 255), Quad(100, 80, 0, 1), Quad(5, 196, 255, 255), Quad(5, 198, 0, 0) }

\* a hostname that is not an IPv4 literal
NameHost == <<"l", "a", "n">>

\* the details objects of plain-http navigations to those hosts, to
\* 5.197.0.0 with its first digit written as the percent-encoded UTF-8 bytes
\* of U+FF15, the fullwidth digit five, and to a host name that is a
\* Punycode label with its delimiter first
AddrNavs ==
    {[tabId |-> 1, frameId |-> 0, url |-> HTTP \o <<"/", "/">> \o h \o Slash] :
        h \in EdgeHosts \cup {NameHost,
            <<"%", "E", "F", "%", "B", "C", "%", "9", "5">> \o Tail(Quad(5, 197, 0, 0)),
            <<"x", "n", "-", "-", "-", "9", "c", "a">>}}

\* strings on which new URL throws: no host, a port above 65535, a dotted
\* quad with an octet above 255, and a label that is not valid Punycode
BadUrls ==
    { HTTP \o <<"/", "/">>,
      HTTP \o <<"/", "/">> \o Host1 \o <<":", "9", "9", "9", "9", "9">> \o Slash,
      HTTP \o <<"/", "/">> \o Quad(5, 196, 256, 1) \o Slash,
      HTTP \o <<"/", "/">> \o <<"x", "n", "-", "-", "a">> \o Slash }

\* the details objects of navigations to those strings and to Host1
BadNavs ==
    {[tabId |-> 1, frameId |-> 0, url |-> u] :
        u \in BadUrls \cup {HTTP \o <<"/", "/">> \o Host1 \o Slash}}

\* the user loads and reloads one address in one tab
ReloadNavs == {[tabId |-> 1, frameId |-> 0, url |-> HTTP \o <<"/", "/">> \o Host1 \o Slash]}

\* one details object for each return of the listener: a sub-frame, a URL
\* that does not parse, a host name, an https URL, the address of a host
\* whose best candidate is http 8080, that candidate itself, and the address
\* of a host with no reachable candidate
PathNavs ==
    { [tabId |-> 1, frameId |-> 1, url |-> HTTP \o <<"/", "/">> \o Host1 \o Slash],
      [tabId |-> 1, frameId |-> 0, url |-> HTTP \o <<"/", "/">>],
      [tabId |-> 1, frameId |-> 0, url |-> HTTP \o <<"/", "/">> \o NameHost \o Slash],
      [tabId |-> 1, frameId |-> 0, url |-> HTTPS \o <<"/", "/">> \o Host1 \o Slash],
      [tabId |-> 1, frameId |-> 0, url |-> HTTP \o <<"/", "/">> \o Host1 \o Slash],
      [tabId |-> 1, frameId |-> 0,
       url |-> HTTP \o <<"/", "/">> \o Host1 \o <<":", "8", "0", "8", "0">> \o Slash],
      [tabId |-> 1, frameId |-> 0, url |-> HTTP \o <<"/", "/">> \o Host2 \o Slash] }

\* the URLs of the details objects above and of the five candidates on their
\* hosts, as chrome.tabs.update is given them and as the browser reports them
KnownUrls ==
    {d.url : d \in UserNavs \cup DirectNavs \cup GateNavs \cup AddrNavs \cup BadNavs
                   \cup ReloadNavs \cup PathNavs}
    \cup {targetUrl(h, checks[c].port, checks[c].protocol) :
             h \in TargetHosts \cup EdgeHosts, c \in 1..NChecks}
    \cup {checks[c].protocol \o <<"/", "/">> \o h
             \o (IF checks[c].port = DefaultPort(checks[c].protocol) THEN <<>>
                 ELSE <<":">> \o ToStr(checks[c].port)) \o Slash :
             h \in TargetHosts \cup EdgeHosts, c \in 1..NChecks}

\* new URL of each of those strings
Parsed == [str \in KnownUrls |-> ParseURL(str)]

\* new URL(str): ParseURL(str), looked up in Parsed for the strings it holds
NewURL(str) == IF str \in KnownUrls THEN Parsed[str] ELSE ParseURL(str)

\* the URL the browser reports for a navigation to str: the parsed URL
\* serialised with the default port dropped and the empty path as "/"
Href(str) ==
    With(NewURL(str),
         LAMBDA u : u.protocol \o <<"/", "/">> \o u.hostname
                      \o (IF Len(u.port) = 0 THEN <<>> ELSE <<":">> \o u.port) \o <<"/">>)

\* ------------------------------------------------------------------ state

VARIABLES
    processedTabs,  \* the Set of lock keys
    timers,         \* pending setTimeout callbacks that delete a lock key
    nav,            \* the listener invocations: locals and position of each
    cmds,           \* the chrome.tabs.update calls made so far, in order
    now,            \* the clock, in ms
    net             \* the endpoints' behaviour, per hostname

vars == <<processedTabs, timers, nav, cmds, now, net>>

Max(S) == CHOOSE x \in S : \A y \in S : x >= y

NavIds == 1..Max({MaxNavs, MaxReloads, MaxDirect, MaxGate, MaxAddr, MaxBad, MaxAny, MaxOrder,
                   MaxPaths})

NoNav == [pc |-> "none",
          details |-> [tabId |-> 0, frameId |-> 0, url |-> <<>>],
          hostname |-> <<>>, lockKey |-> <<>>,
          status |-> [c \in 1..NChecks |-> "NONE"],
          startAt |-> 0,
          outcome |-> "NONE", why |-> "NONE",
          cause |-> 0, during |-> {}]

Init ==
    /\ processedTabs = {}
    /\ timers = {}
    /\ nav = [i \in NavIds |-> NoNav]
    /\ cmds = <<>>
    /\ now = 0
    /\ net \in Networks

\* the invocations suspended at await Promise.all(checks)
Scanning == {i \in NavIds : nav[i].pc = "scanning"}

\* a wrong join: the await resolves as soon as one promise has settled
AllSettled_Any(i) == \E c \in 1..NChecks : nav[i].status[c] # "PENDING"

\* Promise.all(checks) has resolved: every one of the five promises settled
AllSettled(i) == \A c \in 1..NChecks : nav[i].status[c] # "PENDING"

\* an invocation whose await has resolved runs as a microtask, before any
\* other event, timer or response is handled
ContinuationReady == \E i \in Scanning : AllSettled(i)

\* ------------------------------------------------- the listener, lines 70-100

\* a wrong key: the hostname is left out
lockKeyOf_TabOnly(tabId, hostname) == ToStr(tabId)

\* const lockKey = `${details.tabId}-${hostname}`
lockKeyOf(tabId, hostname) == ToStr(tabId) \o <<"-">> \o hostname

\* processedTabs.has(lockKey)
IsLocked(lockKey) == lockKey \in processedTabs

\* a wrong hit on a locked key: no deletion is scheduled
ScheduleDelete_Skipped(lockKey, i) == timers

\* setTimeout(() => processedTabs.delete(lockKey), 5000) called by invocation i
ScheduleDelete(lockKey, i) ==
    timers \cup {[key |-> lockKey, at |-> now + COOLDOWN, by |-> i]}

\* the listener returns without a command: the invocation is over
Return(i, entered, why) ==
    nav' = [nav EXCEPT ![i] = [entered EXCEPT !.pc = "done", !.outcome = "SUPPRESS",
                                              !.why = why]]

\* a wrong entry gate: every URL that is not http on the default port returns
EntryGateReturns_NonDefault(url, isDefaultScheme) == ~isDefaultScheme

\* if (!isDefaultScheme && url.protocol !== 'http:') return
EntryGateReturns(url, isDefaultScheme) == ~isDefaultScheme /\ url.protocol # HTTP

\* a wrong catch block: the key of the failed event is locked, its hostname
\* unknown
Catch_Locks(i, entered) ==
    /\ Return(i, entered, "error")
    /\ processedTabs' = processedTabs \cup {lockKeyOf(entered.details.tabId, entered.hostname)}
    /\ UNCHANGED <<timers, cmds>>

\* catch (e) { console.error(e) }: the exception ends the invocation
Catch(i, entered) ==
    /\ Return(i, entered, "error")
    /\ UNCHANGED <<processedTabs, timers, cmds>>

\* the listener runs from its entry to its first await or return
Listener(i, details, cause) ==
    \E url \in {NewURL(details.url)} :
    LET hostname == url.hostname
        isDefaultScheme == url.protocol = HTTP /\ (url.port = <<>> \/ url.port = <<"8", "0">>)
        lockKey == lockKeyOf(details.tabId, hostname)
        entered == [NoNav EXCEPT !.details = details, !.cause = cause,
                                 !.startAt = now, !.during = Scanning]
        parsed == [entered EXCEPT !.hostname = hostname, !.lockKey = lockKey]
    IN  IF details.frameId # 0
        THEN Return(i, entered, "frame") /\ UNCHANGED <<processedTabs, timers, cmds>>
        ELSE IF ~url.ok
        THEN Catch(i, entered)
        ELSE IF ~isTargetIp(hostname)
        THEN Return(i, parsed, "notTarget") /\ UNCHANGED <<processedTabs, timers, cmds>>
        ELSE IF IsLocked(lockKey)
        THEN /\ timers' = ScheduleDelete(lockKey, i)
             /\ Return(i, parsed, "locked")
             /\ UNCHANGED <<processedTabs, cmds>>
        ELSE IF EntryGateReturns(url, isDefaultScheme)
        THEN Return(i, parsed, "notHttp") /\ UNCHANGED <<processedTabs, timers, cmds>>
        ELSE /\ nav' = [nav EXCEPT ![i] =
                          [parsed EXCEPT !.pc = "scanning",
                                         !.status = [c \in 1..NChecks |-> "PENDING"]]]
             /\ UNCHANGED <<processedTabs, timers, cmds>>

\* the next navigation event may be delivered, as one of at most `limit`
CanArrive(i, limit) ==
    /\ i <= limit
    /\ nav[i].pc = "none"
    /\ \A j \in NavIds : j < i => nav[j].pc # "none"
    /\ now <= MaxTime
    /\ Cardinality(Scanning) < MaxScans
    /\ ~ContinuationReady

\* the user navigates to one of `inputs`
UserNavigates(i, inputs, limit) ==
    /\ CanArrive(i, limit)
    /\ \E details \in inputs : Listener(i, details, 0)
    /\ UNCHANGED <<now, net>>

\* the browser starts the navigation that the k-th chrome.tabs.update asked for
RedirectNavigates(i, limit) ==
    /\ CanArrive(i, limit)
    /\ \E k \in 1..Len(cmds) :
          /\ \A j \in NavIds : nav[j].cause # k
          /\ \E details \in {[tabId |-> cmds[k].tabId, frameId |-> 0,
                              url |-> Href(cmds[k].url)]} : Listener(i, details, k)
    /\ UNCHANGED <<now, net>>

\* ------------------------------------------------------- checkPort, lines 31-63

\* the promise of probe c of invocation i settles with the status for `how`
Settle(i, c, how) ==
    /\ nav' = [nav EXCEPT ![i].status[c] = checkPortStatus(checks[c].protocol, how)]
    /\ UNCHANGED <<processedTabs, timers, cmds, now, net>>

Pending(i, c) ==
    /\ nav[i].pc = "scanning"
    /\ nav[i].status[c] = "PENDING"
    /\ ~ContinuationReady

\* the key under which a network lists the order in which its endpoints'
\* answers and failures arrive (a network without it leaves the order open)
Arrival == <<"a", "r", "r", "i", "v", "a", "l">>

\* the answer of endpoint c is the next one to arrive at invocation i
ArrivesNext(i, c) ==
    Arrival \in DOMAIN net
    => \A k \in 1..Len(net[Arrival]) :
          net[Arrival][k] = c
          => \A m \in 1..(k - 1) : nav[i].status[net[Arrival][m]] # "PENDING"

\* await fetch(...) resolves with a response
FetchResolves(i, c) ==
    /\ Pending(i, c)
    /\ ArrivesNext(i, c)
    /\ net[nav[i].hostname][c] = "RESPOND"
    /\ Settle(i, c, "resolved")

\* a wrong probe: the rejection is not caught and ends the listener's scan
FetchRejects_Propagates(i, c) ==
    /\ Pending(i, c)
    /\ net[nav[i].hostname][c] = "ERROR"
    /\ nav' = [nav EXCEPT ![i].pc = "done", ![i].outcome = "SUPPRESS", ![i].why = "error"]
    /\ UNCHANGED <<processedTabs, timers, cmds, now, net>>

\* await fetch(...) rejects with a network or TLS error
FetchRejects(i, c) ==
    /\ Pending(i, c)
    /\ ArrivesNext(i, c)
    /\ net[nav[i].hostname][c] = "ERROR"
    /\ Settle(i, c, "TypeError")

\* the timer of setTimeout(() => controller.abort(), SCAN_TIMEOUT) fires on a
\* fetch that is still pending, which rejects with AbortError.  The five timers
\* of a scan have the same delay and fire in the order they were set; an
\* endpoint that answers or fails does so before the timer of its own probe
\* fires, and may do so after the timers of earlier probes have fired.
AbortFires(i, c) ==
    /\ Pending(i, c)
    /\ net[nav[i].hostname][c] = "HANG"
    /\ now >= nav[i].startAt + SCAN_TIMEOUT
    /\ \A b \in 1..(c - 1) : nav[i].status[b] # "PENDING"
    /\ Settle(i, c, "AbortError")

\* ----------------------------------------------- the listener, lines 102-151

\* a wrong join: results holds only the outcome that arrived first
resultsOf_Race(i) ==
    LET f == IF Arrival \in DOMAIN net THEN net[Arrival][1] ELSE 1
    IN  <<checkPortResult(nav[i].hostname, checks[f].port, checks[f].protocol,
                          nav[i].status[f])>>

\* const results = await Promise.all(checks)
resultsOf(i) ==
    [c \in 1..NChecks |->
        checkPortResult(nav[i].hostname, checks[c].port, checks[c].protocol,
                        nav[i].status[c])]

\* a wrong check of the current URL: equality for prefix
AtBest_Equals(url, bestTarget) == url = bestTarget.url

\* details.url.startsWith(bestTarget.url)
AtBest(url, bestTarget) == startsWith(url, bestTarget.url)

\* a wrong redirect: the key is not added
LockAdd_Skipped(lockKey) == processedTabs

\* a wrong redirect: the key of port 8080 on the hostname is locked as well
LockAdd_WithPort(lockKey) == processedTabs \cup {lockKey, lockKey \o <<":", "8", "0", "8", "0">>}

\* processedTabs.add(lockKey)
LockAdd(lockKey) == processedTabs \cup {lockKey}

\* the listener resumes after the await and runs to its end;
\* chrome.tabs.update is called with the id of a tab and returns
Resume(i) ==
    /\ nav[i].pc = "scanning"
    /\ AllSettled(i)
    /\ LET active == filterActive(resultsOf(i))
           activePorts == sortByWeight(active)
           bestTarget == activePorts[1]
       IN  IF Len(active) = 0
           THEN Return(i, nav[i], "noActive") /\ UNCHANGED <<processedTabs, cmds>>
           ELSE IF AtBest(nav[i].details.url, bestTarget)
           THEN Return(i, nav[i], "atBest") /\ UNCHANGED <<processedTabs, cmds>>
           ELSE /\ processedTabs' = LockAdd(nav[i].lockKey)
                /\ cmds' = Append(cmds, [tabId |-> nav[i].details.tabId,
                                         url |-> bestTarget.url,
                                         at |-> now, by |-> i])
                /\ nav' = [nav EXCEPT ![i].pc = "done", ![i].outcome = "REDIRECT",
                                      ![i].why = "redirect"]
    /\ UNCHANGED <<timers, now, net>>

\* ------------------------------------------------------- timers and clock

\* a callback () => processedTabs.delete(lockKey) runs
DeleteFires(t) ==
    /\ t \in timers
    /\ now >= t.at
    /\ ~ContinuationReady
    /\ processedTabs' = processedTabs \ {t.key}
    /\ timers' = timers \ {t}
    /\ UNCHANGED <<nav, cmds, now, net>>

\* the instants at which something pending is due
Deadlines == {t.at : t \in timers} \cup {nav[i].startAt + SCAN_TIMEOUT : i \in Scanning}

Min(S) == CHOOSE x \in S : \A y \in S : x <= y

\* time passes, up to the next observed instant; nothing that is due is skipped
Tick ==
    /\ ~ContinuationReady
    /\ \A d \in Deadlines : d > now
    /\ LET grid == ((now \div TimeStep) + 1) * TimeStep
           next == IF grid <= MaxTime THEN Min(Deadlines \cup {grid}) ELSE Min(Deadlines)
       IN  /\ (grid <= MaxTime \/ Deadlines # {})
           /\ now' = next
    /\ UNCHANGED <<processedTabs, timers, nav, cmds, net>>

\* a run of at most `limit` navigation events, the user's among `inputs`
Run(inputs, limit) ==
    \/ \E i \in NavIds : UserNavigates(i, inputs, limit)
    \/ \E i \in NavIds : RedirectNavigates(i, limit)
    \/ \E i \in NavIds, c \in 1..NChecks : FetchResolves(i, c)
    \/ \E i \in NavIds, c \in 1..NChecks : FetchRejects(i, c)
    \/ \E i \in NavIds, c \in 1..NChecks : AbortFires(i, c)
    \/ \E i \in NavIds : Resume(i)
    \/ \E t \in timers : DeleteFires(t)
    \/ Tick

Next == Run(UserNavs, MaxNavs)

Spec == Init /\ [][Next]_vars

\* runs in which the user navigates to a plain-HTTP port of a target host
NextDirect == Run(DirectNavs, MaxDirect)

SpecDirect == Init /\ [][NextDirect]_vars

\* runs in which the user names the scheme and the port
NextGate == Run(GateNavs, MaxGate)

SpecGate == Init /\ [][NextGate]_vars

\* ------------------------------- runs to the edges of the target ranges

\* every host has an https 443 endpoint that answers
InitAddr ==
    /\ processedTabs = {}
    /\ timers = {}
    /\ nav = [i \in NavIds |-> NoNav]
    /\ cmds = <<>>
    /\ now = 0
    /\ net = [h \in EdgeHosts \cup {NameHost} |-> NetHttps]

\* the events of these runs arrive one at a time: none while a scan is pending
NextAddr == Run(AddrNavs, MaxAddr) /\ Cardinality(Scanning') <= 1

SpecAddr == InitAddr /\ [][NextAddr]_vars

\* --------------------------------------- runs with URLs that do not parse

NextBad == Run(BadNavs, MaxBad)

SpecBad == Init /\ [][NextBad]_vars

\* ------------------------------- runs against any behaviour of the endpoints

\* each of the five endpoints of Host1 answers, fails or never answers
AnyNetworks ==
    {[h \in TargetHosts |-> IF h = Host1 THEN b ELSE NetNone] :
        b \in [1..NChecks -> Behaviours]}

InitAny ==
    /\ processedTabs = {}
    /\ timers = {}
    /\ nav = [i \in NavIds |-> NoNav]
    /\ cmds = <<>>
    /\ now = 0
    /\ net \in AnyNetworks

\* the events of these runs arrive one at a time: none while a scan is pending
NextAny == Run(ReloadNavs, MaxAny) /\ Cardinality(Scanning') <= 1

SpecAny == InitAny /\ [][NextAny]_vars

\* a fetch settles, a timer that is due fires, or time passes
Progress ==
    \/ \E i \in NavIds, c \in 1..NChecks :
          FetchResolves(i, c) \/ FetchRejects(i, c) \/ AbortFires(i, c)
    \/ \E t \in timers : DeleteFires(t)
    \/ Tick

\* weak fairness of the continuation of a resolved await: Resume(i) is
\* enabled exactly when invocation i is suspended with its five promises
\* settled, that is, when ContinuationReady holds
ResumeFair ==
    \/ []<>(~ContinuationReady)
    \/ []<><<\E i \in NavIds : Resume(i)>>_vars

\* the event loop does not stop while it has something to run
FairAny == SpecAny /\ WF_vars(Progress) /\ ResumeFair

\* ------------------------- runs in which the network fixes the completion order

\* the endpoints that answer or fail; https 8080 never answers
Answering == {c \in 1..NChecks : c # 2}

\* the orders in which the answers of those endpoints can arrive
Arrivals ==
    {p \in [1..Cardinality(Answering) -> Answering] :
        \A k \in DOMAIN p, m \in DOMAIN p : p[k] = p[m] => k = m}

\* the behaviour of the endpoints of Host1 and the order of their answers
OrderNetworks ==
    {[h \in TargetHosts \cup {Arrival} |->
        IF h = Arrival THEN p
        ELSE IF h = Host1 THEN [c \in 1..NChecks |-> IF c \in Answering THEN b[c] ELSE "HANG"]
        ELSE NetNone] :
        p \in Arrivals, b \in [Answering -> {"RESPOND", "ERROR"}]}

InitOrder ==
    /\ processedTabs = {}
    /\ timers = {}
    /\ nav = [i \in NavIds |-> NoNav]
    /\ cmds = <<>>
    /\ now = 0
    /\ net \in OrderNetworks

\* the events of these runs arrive one at a time: none while a scan is pending
NextOrder == Run(ReloadNavs, MaxOrder) /\ Cardinality(Scanning') <= 1

SpecOrder == InitOrder /\ [][NextOrder]_vars

\* ------------------------------ runs that take every return of the listener

InitPaths ==
    /\ processedTabs = {}
    /\ timers = {}
    /\ nav = [i \in NavIds |-> NoNav]
    /\ cmds = <<>>
    /\ now = 0
    /\ net = [h \in TargetHosts |-> IF h = Host1 THEN NetHttp ELSE NetNone]

NextPaths == Run(PathNavs, MaxPaths)

SpecPaths == InitPaths /\ [][NextPaths]_vars

\* ------------------------------------------- runs with a changing network

\* only http 8888 answers cleanly
NetHttpAlt == <<"ERROR", "HANG", "HANG", "HANG", "RESPOND">>

\* the endpoint http 8080 of Host1 answers in time for some scans and not for
\* others
ChangingNetworks ==
    { [h \in TargetHosts |-> IF h = Host1 THEN NetHttp ELSE NetNone],
      [h \in TargetHosts |-> IF h = Host1 THEN NetHttpAlt ELSE NetNone] }

InitChanging ==
    /\ processedTabs = {}
    /\ timers = {}
    /\ nav = [i \in NavIds |-> NoNav]
    /\ cmds = <<>>
    /\ now = 0
    /\ net \in ChangingNetworks

\* between two scans an endpoint starts or stops answering in time
NetChanges ==
    /\ Scanning = {}
    /\ net' \in ChangingNetworks \ {net}
    /\ UNCHANGED <<processedTabs, timers, nav, cmds, now>>

NextChanging == Run(ReloadNavs, MaxReloads) \/ NetChanges

SpecChanging == InitChanging /\ [][NextChanging]_vars

\* ---------------------------------------------------- vocabulary of the claims

Arrived == {i \in NavIds : nav[i].pc # "none"}
Done == {i \in NavIds : nav[i].pc = "done"}

\* the commands invocation i issued
CmdsBy(i) == {k \in 1..Len(cmds) : cmds[k].by = i}

Redirected(i) == nav[i].pc = "done" /\ nav[i].outcome = "REDIRECT" /\ CmdsBy(i) # {}
Suppressed(i) == nav[i].pc = "done" /\ nav[i].outcome = "SUPPRESS" /\ CmdsBy(i) = {}

\* a top-level plain-HTTP navigation to a target address
PlainHttpTarget(i) ==
    /\ nav[i].details.frameId = 0
    /\ NewURL(nav[i].details.url).ok
    /\ NewURL(nav[i].details.url).protocol = HTTP
    /\ isTargetIp(NewURL(nav[i].details.url).hostname)

\* the same (navContext, hostname)
SameKey(i, j) ==
    /\ nav[i].details.tabId = nav[j].details.tabId
    /\ Len(nav[i].hostname) > 0
    /\ nav[i].hostname = nav[j].hostname

\* the outcomes a scan of hostname h collects from the network
NetStatus(h, c) ==
    checkPortStatus(checks[c].protocol,
                    IF net[h][c] = "RESPOND" THEN "resolved"
                    ELSE IF net[h][c] = "ERROR" THEN "TypeError" ELSE "AbortError")

NetRanked(h) ==
    sortByWeight(filterActive(
        [c \in 1..NChecks |->
            checkPortResult(h, checks[c].port, checks[c].protocol, NetStatus(h, c))]))

\* i has a reachable best candidate whose URL does not prefix the current URL
BestElsewhere(i) ==
    /\ Len(NetRanked(nav[i].hostname)) > 0
    /\ ~startsWith(nav[i].details.url, NetRanked(nav[i].hostname)[1].url)

\* j was delivered after i had run to its end
After(i, j) == i < j /\ nav[i].pc = "done" /\ nav[j].pc # "none" /\ i \notin nav[j].during

\* ------------------------------------------------------------------- C1

\* C1: from the initial state, two top-level plain-HTTP navigations for the
\* same (tab, hostname), the second delivered after the first has finished
\* and less than one cooldown after its redirect, with a reachable best
\* candidate that does not prefix the URL: the first issues the redirect to
\* the best candidate's URL and the second issues no command.
C1_RedirectThenSuppress ==
    (/\ nav[1].pc = "done" /\ nav[2].pc = "done"
     /\ PlainHttpTarget(1) /\ PlainHttpTarget(2)
     /\ SameKey(1, 2) /\ After(1, 2)
     /\ BestElsewhere(1) /\ BestElsewhere(2))
    => /\ Redirected(1)
       /\ \A k \in CmdsBy(1) : cmds[k].url = NetRanked(nav[1].hostname)[1].url
       /\ (\A k \in CmdsBy(1) : nav[2].startAt < cmds[k].at + COOLDOWN) => Suppressed(2)

C1_Witness ==
    /\ nav[1].pc = "done" /\ nav[2].pc = "done"
    /\ PlainHttpTarget(1) /\ PlainHttpTarget(2)
    /\ SameKey(1, 2) /\ After(1, 2)
    /\ BestElsewhere(1) /\ BestElsewhere(2)
    /\ Redirected(1) /\ Suppressed(2)
    /\ \A k \in CmdsBy(1) : nav[2].startAt < cmds[k].at + COOLDOWN

\* ------------------------------------------------------------------- C2

\* C2: when the second of two navigation events for the same (tab, hostname)
\* arrives while the first one's probes are still pending, at most one of
\* the two issues a redirect.
C2_OneRedirectWhenOverlapping ==
    \A i \in NavIds, j \in NavIds :
        (i < j /\ SameKey(i, j) /\ i \in nav[j].during)
        => ~(Redirected(i) /\ Redirected(j))

\* ------------------------------------------------------------------- C3

\* C3: two redirects for the same (tab, hostname) are at least one cooldown
\* apart.
C3_RedirectsOneCooldownApart ==
    \A k \in 1..Len(cmds), l \in 1..Len(cmds) :
        (k < l /\ SameKey(cmds[k].by, cmds[l].by))
        => cmds[l].at - cmds[k].at >= COOLDOWN

\* ------------------------------------------------------------------- C4

\* C4: a key that a redirect locked is unlocked again once more than one
\* cooldown has passed since the redirect and since the last navigation
\* event for its (tab, hostname), with no further event needed.
C4_LockExpiresAfterCooldown ==
    \A i \in NavIds :
        (/\ Redirected(i)
         /\ \A k \in CmdsBy(i) : now > cmds[k].at + COOLDOWN
         /\ \A j \in Arrived : SameKey(i, j) => now > nav[j].startAt + COOLDOWN)
        => nav[i].lockKey \notin processedTabs

\* ------------------------------------------------------------------- C5

\* i, j and k are consecutive navigation events of one (tab, hostname)
Consecutive(i, j, k) ==
    /\ i < j /\ j < k
    /\ SameKey(i, j) /\ SameKey(j, k)
    /\ \A m \in NavIds : (i < m /\ m < k /\ m # j) => ~SameKey(m, k)

\* C5: after a redirect and then a navigation suppressed by the lock, a third
\* top-level plain-HTTP navigation for the same (tab, hostname) that arrives
\* more than one cooldown after the suppressed one, with a reachable best
\* candidate that does not prefix its URL, issues the redirect to the best
\* candidate's URL again.
C5_RedirectAgainAfterCooldown ==
    \A i \in NavIds, j \in NavIds, k \in NavIds :
        (/\ Consecutive(i, j, k)
         /\ Redirected(i) /\ After(i, j)
         /\ Suppressed(j) /\ nav[j].why = "locked"
         /\ nav[k].pc = "done" /\ PlainHttpTarget(k) /\ BestElsewhere(k)
         /\ nav[k].startAt > nav[j].startAt + COOLDOWN)
        => /\ Redirected(k)
           /\ \A c \in CmdsBy(k) : cmds[c].url = NetRanked(nav[k].hostname)[1].url

C5_Witness ==
    \E i \in NavIds, j \in NavIds, k \in NavIds :
        /\ Consecutive(i, j, k)
        /\ Redirected(i) /\ After(i, j)
        /\ Suppressed(j) /\ nav[j].why = "locked"
        /\ PlainHttpTarget(k) /\ BestElsewhere(k)
        /\ nav[k].startAt > nav[j].startAt + COOLDOWN
        /\ Redirected(k)

\* ------------------------------------------------------------------- C6

\* the navigation event that the k-th command caused arrived less than one
\* cooldown after the command
Prompt(i) == nav[i].cause # 0 /\ nav[i].startAt < cmds[nav[i].cause].at + COOLDOWN

\* C6: the navigation event that a redirect causes in the same tab, delivered
\* within the cooldown, issues no command, and no invocation issues more
\* than one command, so the chain of events that one user navigation starts
\* ends after its first redirect.
C6_NoRedirectLoop ==
    /\ \A i \in Done : Prompt(i) => Suppressed(i)
    /\ \A i \in NavIds : Cardinality(CmdsBy(i)) <= 1
    /\ \A k \in 1..Len(cmds) : ~Prompt(cmds[k].by)

\* ------------------------------------------------------------------- C7

Statuses == {"OPEN", "CLOSED", "PROBABLY_OPEN_SSL"}

\* the invocations that got past the await of their scan
Scanned == {i \in Done : nav[i].why \in {"noActive", "atBest", "redirect"}}

\* C7: while an invocation is suspended in its scan all five probes have been
\* started, and it decides (ranks, redirects or returns) only when every one
\* of the five has settled: an invocation that issued a command or returned
\* after its scan holds five settled outcomes.
C7_JoinAll ==
    /\ \A i \in Scanning : \A c \in 1..NChecks : nav[i].status[c] \in Statuses \cup {"PENDING"}
    /\ \A i \in Scanned : \A c \in 1..NChecks : nav[i].status[c] \in Statuses
    /\ \A k \in 1..Len(cmds) : cmds[k].by \in Scanned

\* a probe has reported OPEN while another probe of the scan is pending, and
\* the invocation has issued nothing
C7_Witness ==
    \E i \in Scanning :
        /\ \E c \in 1..NChecks : nav[i].status[c] = "OPEN"
        /\ \E c \in 1..NChecks : nav[i].status[c] = "PENDING"
        /\ CmdsBy(i) = {}

\* ------------------------------------------------------------------- C8

AllClosed(i) == \A c \in 1..NChecks : nav[i].status[c] = "CLOSED"

\* C8: a scan whose five probes are all CLOSED ranks nothing, and its
\* invocation issues no command and locks nothing.
C8_AllClosedSuppress ==
    \A i \in Done :
        AllClosed(i)
        => /\ Suppressed(i)
           /\ sortByWeight(filterActive(resultsOf(i))) = <<>>
           /\ (nav[i].lockKey \in processedTabs => \E j \in NavIds : j # i /\ Redirected(j))

C8_Witness == \E i \in Done : AllClosed(i) /\ Suppressed(i)

\* ------------------------------------------------------------------- C9

\* the best candidate of the outcomes invocation i collected
BestCollected(i) == sortByWeight(filterActive(resultsOf(i)))[1]

\* C9: an invocation whose URL starts with the URL of the best candidate of
\* its scan issues no command, the first invocation of its key included.
C9_AtBestSuppress ==
    \A i \in Scanned :
        (/\ Len(filterActive(resultsOf(i))) > 0
         /\ startsWith(nav[i].details.url, BestCollected(i).url))
        => Suppressed(i)

\* the first navigation event of a run is already at the best candidate
C9_Witness ==
    /\ 1 \in Scanned
    /\ Len(filterActive(resultsOf(1))) > 0
    /\ startsWith(nav[1].details.url, BestCollected(1).url)
    /\ Suppressed(1)
    /\ processedTabs = {}

\* ------------------------------------------------------------------ C10

\* the key of (tab, hostname) is LOCKED
Locked(tabId, h) == lockKeyOf(tabId, h) \in processedTabs

Tabs == {d.tabId : d \in UserNavs \cup DirectNavs \cup ReloadNavs \cup GateNavs \cup AddrNavs \cup BadNavs \cup PathNavs}

\* C10: a step changes whether the key of (tab, h) is LOCKED only if it is the
\* redirect of an invocation for (tab, h) or the timer that an invocation for
\* (tab, h) set: no scan or timer of another hostname touches it.
C10_NoInterference ==
    [][\A tab \in Tabs, h \in TargetHosts :
          (Locked(tab, h) # Locked(tab, h)')
          => \/ \E i \in NavIds : /\ nav[i].pc = "scanning" /\ nav'[i].pc = "done"
                                  /\ nav[i].details.tabId = tab /\ nav[i].hostname = h
             \/ \E t \in timers \ timers' :
                    nav[t.by].details.tabId = tab /\ nav[t.by].hostname = h]_vars

\* scans of the two hostnames of one tab overlapped, and exactly one of the
\* two keys is locked
C10_Witness ==
    \E i \in Done, j \in Done :
        /\ nav[i].details.tabId = nav[j].details.tabId
        /\ nav[i].hostname = Host1 /\ nav[j].hostname = Host2
        /\ (i \in nav[j].during \/ j \in nav[i].during)
        /\ Locked(nav[i].details.tabId, Host1) # Locked(nav[j].details.tabId, Host2)

\* ------------------------------------------------------------------ C11

\* the classification the endpoint's behaviour b calls for on candidate c
Classified(c, b) ==
    IF b = "RESPOND" THEN "OPEN"
    ELSE IF b = "HANG" THEN "CLOSED"
    ELSE IF checks[c].protocol = HTTPS THEN "PROBABLY_OPEN_SSL"
    ELSE "CLOSED"

\* C11: a probe gets its outcome once and keeps it: a response gives OPEN, a
\* fetch still pending when the 1200 ms deadline has elapsed gives CLOSED, any
\* other failure gives PROBABLY_OPEN_SSL on an https candidate and CLOSED on
\* an http candidate; an http candidate is never PROBABLY_OPEN_SSL.
C11_ProbeClassification ==
    [][\A i \in NavIds, c \in 1..NChecks :
          /\ (nav'[i].status[c] = "PROBABLY_OPEN_SSL" => checks[c].protocol = HTTPS)
          /\ (nav[i].status[c] # nav'[i].status[c]) =>
                \/ (nav[i].status[c] = "NONE" /\ nav'[i].status[c] = "PENDING")
                \/ /\ nav[i].status[c] = "PENDING"
                   /\ nav'[i].status[c] = Classified(c, net[nav[i].hostname][c])
                   /\ (net[nav[i].hostname][c] = "HANG"
                         => now >= nav[i].startAt + SCAN_TIMEOUT)]_vars

\* finished scans hold an http probe that failed and is CLOSED, an https probe
\* that failed and is PROBABLY_OPEN_SSL, an OPEN probe and a timed-out one
C11_Witness ==
    \E i \in Scanned, j \in Scanned :
        /\ \E c \in 1..NChecks : /\ checks[c].protocol = HTTP
                                 /\ net[nav[i].hostname][c] = "ERROR"
                                 /\ nav[i].status[c] = "CLOSED"
        /\ \E c \in 1..NChecks : /\ checks[c].protocol = HTTPS
                                 /\ net[nav[j].hostname][c] = "ERROR"
                                 /\ nav[j].status[c] = "PROBABLY_OPEN_SSL"
        /\ \E c \in 1..NChecks : /\ net[nav[j].hostname][c] = "RESPOND"
                                 /\ nav[j].status[c] = "OPEN"
        /\ \E c \in 1..NChecks : /\ net[nav[j].hostname][c] = "HANG"
                                 /\ nav[j].status[c] = "CLOSED"

\* ------------------------------------------------------------------ C12

Active(x) == x.status \in {"OPEN", "PROBABLY_OPEN_SSL"}

\* the score of the claim: status term + scheme term + port term
Score(x) ==
    (IF x.status = "OPEN" THEN 100 ELSE IF x.status = "PROBABLY_OPEN_SSL" THEN 50 ELSE 0)
    + (IF x.protocol = HTTPS THEN 10 ELSE 0)
    + (CASE x.port = 443 -> 3 [] x.port = 8080 -> 2 [] x.port = 8888 -> 1 [] OTHER -> 0)

ActiveWithScore(list, s) == SelectSeq(list, LAMBDA x : Active(x) /\ Score(x) = s)

\* out is the ranking of the outcomes in: only OPEN and PROBABLY_OPEN_SSL
\* outcomes, in descending score, and for each score exactly the outcomes of
\* in with that score, in the order they have in in
RankedAsClaimed(in, out) ==
    /\ \A k \in 1..Len(out) : Active(out[k])
    /\ \A k \in 1..Len(out), l \in 1..Len(out) : k < l => Score(out[k]) >= Score(out[l])
    /\ \A s \in {Score(in[k]) : k \in 1..Len(in)} \cup {Score(out[k]) : k \in 1..Len(out)} :
          ActiveWithScore(out, s) = ActiveWithScore(in, s)

\* outcomes on listed and unlisted ports, in every status
RankItems ==
    {checkPortResult(Host1, c.port, c.protocol, st) :
        c \in {[port |-> 443, protocol |-> HTTPS], [port |-> 8080, protocol |-> HTTPS],
               [port |-> 8888, protocol |-> HTTP], [port |-> 80, protocol |-> HTTP],
               [port |-> 81, protocol |-> HTTP]},
        st \in Statuses}

RankLists == UNION {[1..n -> RankItems] : n \in 0..MaxRankLen}

\* the outcomes of the five candidates, in every combination of statuses
CandidateLists ==
    {[c \in 1..NChecks |-> checkPortResult(Host1, checks[c].port, checks[c].protocol, st[c])] :
        st \in [1..NChecks -> Statuses]}

Outcome(port, protocol, status) == checkPortResult(Host1, port, protocol, status)

\* the ranking applied to every list of at most MaxRankLen outcomes, to the
\* outcomes of the five candidates in every combination of statuses, and to
\* the two examples: [OPEN 443 https, SSL 8080 https, CLOSED 8888 https] and
\* [OPEN 8888 https, OPEN 8080 https]
RankingOfLists ==
    /\ \A in \in RankLists \cup CandidateLists :
          RankedAsClaimed(in, sortByWeight(filterActive(in)))
    /\ \A x \in RankItems : getWeight(x) = Score(x)
    /\ LET a == Outcome(443, HTTPS, "OPEN")
           b == Outcome(8080, HTTPS, "PROBABLY_OPEN_SSL")
           c == Outcome(8888, HTTPS, "CLOSED")
       IN  /\ sortByWeight(filterActive(<<a, b, c>>)) = <<a, b>>
           /\ getWeight(a) = 113 /\ getWeight(b) = 62
    /\ LET a == Outcome(8080, HTTPS, "OPEN")
           b == Outcome(8888, HTTPS, "OPEN")
       IN  /\ sortByWeight(filterActive(<<b, a>>)) = <<a, b>>
           /\ getWeight(a) = 112 /\ getWeight(b) = 111

\* C12: the ranking of a list of outcomes is the list of its OPEN and
\* PROBABLY_OPEN_SSL outcomes, none dropped or duplicated, in descending
\* score (status 100/50, https 10, port 443: 3, 8080: 2, 8888: 1, other 0),
\* equal scores in their original order; the two examples of the claim rank
\* as it says; and every finished scan ranked its five outcomes this way.
C12_Ranking ==
    /\ RankingOfLists
    /\ \A i \in Scanned :
          /\ RankedAsClaimed(resultsOf(i), sortByWeight(filterActive(resultsOf(i))))
          /\ \A k \in CmdsBy(i) : cmds[k].url = BestCollected(i).url

\* a finished scan collected an OPEN, a PROBABLY_OPEN_SSL and a CLOSED
\* outcome, the OPEN one later in the candidate list than the
\* PROBABLY_OPEN_SSL one, and redirected to the OPEN one
C12_Witness ==
    \E i \in Scanned : \E a \in 1..NChecks, b \in 1..NChecks, c \in 1..NChecks :
        /\ a < b
        /\ nav[i].status[a] = "PROBABLY_OPEN_SSL"
        /\ nav[i].status[b] = "OPEN"
        /\ nav[i].status[c] = "CLOSED"
        /\ \E k \in CmdsBy(i) : cmds[k].url = resultsOf(i)[b].url

\* ------------------------------------------------------------------ C13

HasOpen(list) == \E k \in 1..Len(list) : list[k].status = "OPEN"

\* in every combination of statuses of the five candidates, and in every list
\* of at most MaxRankLen outcomes, an OPEN outcome makes the best one OPEN
OpenDominatesInLists ==
    \A in \in CandidateLists \cup RankLists :
        HasOpen(in) => sortByWeight(filterActive(in))[1].status = "OPEN"

\* C13: when at least one of the five probes is OPEN the best candidate is an
\* OPEN outcome, whatever the schemes and ports of the PROBABLY_OPEN_SSL
\* outcomes, and a redirect goes to the URL of an OPEN outcome.
C13_OpenDominates ==
    /\ OpenDominatesInLists
    /\ \A i \in Scanned :
          HasOpen(resultsOf(i))
          => /\ BestCollected(i).status = "OPEN"
             /\ \A k \in CmdsBy(i) :
                   \E c \in 1..NChecks : /\ nav[i].status[c] = "OPEN"
                                          /\ cmds[k].url = resultsOf(i)[c].url

\* https 443, the candidate with the largest scheme and port terms, was
\* PROBABLY_OPEN_SSL, only a plain-http candidate was OPEN, and the redirect
\* went to the plain-http one
C13_Witness ==
    \E i \in Scanned :
        /\ nav[i].status[1] = "PROBABLY_OPEN_SSL"
        /\ \A c \in 1..NChecks : nav[i].status[c] = "OPEN" => checks[c].protocol = HTTP
        /\ \E c \in 1..NChecks : /\ nav[i].status[c] = "OPEN"
                                 /\ CmdsBy(i) # {}
                                 /\ \A k \in CmdsBy(i) : cmds[k].url = resultsOf(i)[c].url

\* ------------------------------------------------------------------ C14

\* the URL of a top-level navigation to a target address
TopLevelTarget(details) ==
    /\ details.frameId = 0
    /\ NewURL(details.url).ok
    /\ isTargetIp(NewURL(details.url).hostname)

\* C14: when a top-level navigation to a target address is delivered, a URL
\* whose scheme is not http: ends the invocation at once, with no probe
\* started, no key locked and no command; a URL whose scheme is http:, on any
\* port, starts the five probes when its key is not locked.  No command is
\* ever issued by an invocation whose URL is not http:.
C14_EntryGate ==
    [][/\ \A i \in NavIds :
             (nav[i].pc = "none" /\ nav'[i].pc # "none" /\ TopLevelTarget(nav'[i].details))
             => LET url == NewURL(nav'[i].details.url)
                    key == lockKeyOf(nav'[i].details.tabId, url.hostname)
                IN  IF url.protocol # HTTP
                    THEN /\ nav'[i].pc = "done" /\ nav'[i].outcome = "SUPPRESS"
                         /\ \A c \in 1..NChecks : nav'[i].status[c] = "NONE"
                         /\ cmds' = cmds /\ processedTabs' = processedTabs
                    ELSE key \notin processedTabs
                         => /\ nav'[i].pc = "scanning"
                            /\ \A c \in 1..NChecks : nav'[i].status[c] = "PENDING"
       /\ \A k \in 1..Len(cmds') :
             NewURL(nav'[cmds'[k].by].details.url).protocol = HTTP]_vars

\* an https navigation to port 8888 of a target address was suppressed by the
\* gate while its key was unlocked, and a plain-http navigation to port 8080
\* of the same address was scanned
C14_Witness ==
    \E i \in Done, j \in Arrived :
        /\ TopLevelTarget(nav[i].details) /\ TopLevelTarget(nav[j].details)
        /\ NewURL(nav[i].details.url).protocol = HTTPS
        /\ NewURL(nav[i].details.url).port = <<"8", "8", "8", "8">>
        /\ Suppressed(i) /\ nav[i].why = "notHttp"
        /\ \A c \in 1..NChecks : nav[i].status[c] = "NONE"
        /\ NewURL(nav[j].details.url).protocol = HTTP
        /\ NewURL(nav[j].details.url).port = <<"8", "0", "8", "0">>
        /\ \A c \in 1..NChecks : nav[j].status[c] # "NONE"

\* ------------------------------------------------------------------ C15

\* the invocations that found their key locked
LockedHits == {j \in Done : nav[j].why = "locked"}

\* C15: a navigation event that finds its key locked issues no command and
\* starts no probe, and the key then stays locked until one cooldown after
\* the most recent such event: the expiry is rescheduled, not added to.
C15_ExpiryAfterLastHit ==
    \A j \in LockedHits :
        /\ Suppressed(j)
        /\ \A c \in 1..NChecks : nav[j].status[c] = "NONE"
        /\ now < nav[j].startAt + COOLDOWN => nav[j].lockKey \in processedTabs

\* ------------------------------------------------------------------ C16

\* octet values around the bounds of the two ranges
FirstOctets == {0, 5, 6, 99, 100, 101, 255}
SecondOctets == {0, 59, 60, 61, 79, 80, 81, 196, 197, 198, 255}
LowOctets == {0, 1, 255}

\* ((o1*256+o2)*256+o3)*256+o4 as the pair of its 16-bit halves, and the
\* order of such values
Value(o1, o2, o3, o4) == <<o1 * 256 + o2, o3 * 256 + o4>>
ValueLeq(a, b) == a[1] < b[1] \/ (a[1] = b[1] /\ a[2] <= b[2])

\* the value lies in [100.60.0.0, 100.80.0.0] or in [5.197.0.0, 5.197.255.255]
InRanges(v) ==
    \/ ValueLeq(Value(100, 60, 0, 0), v) /\ ValueLeq(v, Value(100, 80, 0, 0))
    \/ ValueLeq(Value(5, 197, 0, 0), v) /\ ValueLeq(v, Value(5, 197, 255, 255))

\* the octet written with leading zeros, as three digits
Pad3(o) == <<DigitChars[(o \div 100) + 1], DigitChars[((o \div 10) % 10) + 1],
             DigitChars[(o % 10) + 1]>>

\* isTargetIp on every dotted quad of the octet sets, written plainly and
\* with leading zeros, and on the eight addresses the claim names
ClassifiesQuads ==
    /\ \A o1 \in FirstOctets, o2 \in SecondOctets, o3 \in LowOctets, o4 \in LowOctets :
          /\ isTargetIp(Quad(o1, o2, o3, o4)) <=> InRanges(Value(o1, o2, o3, o4))
          /\ isTargetIp(Pad3(o1) \o <<".">> \o Pad3(o2) \o <<".">> \o Pad3(o3)
                          \o <<".">> \o Pad3(o4))
                <=> InRanges(Value(o1, o2, o3, o4))
    /\ isTargetIp(Quad(100, 60, 0, 0)) /\ isTargetIp(Quad(100, 80, 0, 0))
    /\ isTargetIp(Quad(5, 197, 0, 0)) /\ isTargetIp(Quad(5, 197, 255, 255))
    /\ ~isTargetIp(Quad(100, 59, 255, 255)) /\ ~isTargetIp(Quad(100, 80, 0, 1))
    /\ ~isTargetIp(Quad(5, 196, 255, 255)) /\ ~isTargetIp(Quad(5, 198, 0, 0))

\* C16: on dotted quads with octets in 0..255 isTargetIp is true exactly when
\* the value is in [100.60.0.0, 100.80.0.0] or [5.197.0.0, 5.197.255.255],
\* both ends included; and a navigation to a hostname on which it is false
\* starts no probe, locks nothing and issues no command.
C16_TargetRanges ==
    /\ ClassifiesQuads
    /\ \A i \in Arrived :
          (/\ nav[i].details.frameId = 0
           /\ NewURL(nav[i].details.url).ok
           /\ ~isTargetIp(NewURL(nav[i].details.url).hostname))
          => /\ Suppressed(i)
             /\ \A c \in 1..NChecks : nav[i].status[c] = "NONE"
             /\ \A t \in timers : t.by # i
             /\ lockKeyOf(nav[i].details.tabId, NewURL(nav[i].details.url).hostname)
                   \notin processedTabs

\* a navigation to 100.80.0.0, the last address of a range, was scanned and
\* one to 100.80.0.1, the address after it, was not
C16_Witness ==
    \E i \in Scanned, j \in Done :
        /\ nav[i].hostname = Quad(100, 80, 0, 0)
        /\ nav[j].hostname = Quad(100, 80, 0, 1)
        /\ Suppressed(j) /\ nav[j].why = "notTarget"
        /\ \A c \in 1..NChecks : nav[j].status[c] = "NONE"

\* ------------------------------------------------------------------ C17

\* the invocations that ended in the catch block
Failed == {i \in Done : nav[i].why = "error"}

\* C17: the step in which an invocation fails changes nothing but that
\* invocation's own record: the lock set, the pending timers, the commands
\* and every other invocation, in flight or finished, are as they were; and a
\* failed invocation has issued no command and started no probe.
C17_ErrorIsolation ==
    [][\A i \in NavIds :
          (nav'[i].pc = "done" /\ nav'[i].why = "error")
          => /\ nav'[i].outcome = "SUPPRESS"
             /\ \A k \in 1..Len(cmds') : cmds'[k].by # i
             /\ \A c \in 1..NChecks : nav'[i].status[c] = "NONE"
             /\ nav[i].pc # "done"
                  => /\ processedTabs' = processedTabs
                     /\ timers' = timers
                     /\ cmds' = cmds
                     /\ \A j \in NavIds \ {i} : nav'[j] = nav[j]]_vars

\* an invocation failed while another was suspended in its scan; that other
\* one then redirected, and a later event for its key was suppressed by the
\* lock
C17_Witness ==
    \E e \in Failed, i \in Done, j \in Done :
        /\ i \in nav[e].during
        /\ Redirected(i)
        /\ e < j /\ SameKey(i, j) /\ nav[j].why = "locked" /\ Suppressed(j)

\* ------------------------------------------------------------------ C18

\* C18: whatever the five endpoints do, a scan is never pending more than
\* 1200 ms after its start, an invocation that started its probes ends only
\* after its scan, holding five classified outcomes, failed probes included,
\* and every invocation that starts a scan ends with REDIRECT or SUPPRESS.
\* A timer runs when it is due, so the first conjunct compares the delay the
\* code gives its abort timers with the 1200 ms of the claim.
C18_ScanTerminates ==
    /\ [](/\ \A i \in Scanning : now <= nav[i].startAt + 1200
          /\ \A i \in Done :
                /\ nav[i].outcome \in {"REDIRECT", "SUPPRESS"}
                /\ (\E c \in 1..NChecks : nav[i].status[c] # "NONE")
                     => /\ i \in Scanned
                        /\ \A c \in 1..NChecks : nav[i].status[c] \in Statuses)
    /\ \A i \in 1..MaxAny : (nav[i].pc = "scanning") ~> (nav[i].pc = "done")

\* a scan in which one probe failed on plain http, one failed on https and
\* one never answered ended with a redirect to the one candidate that
\* answered
C18_Witness ==
    \E i \in Scanned :
        /\ \E c \in 1..NChecks : net[nav[i].hostname][c] = "ERROR" /\ checks[c].protocol = HTTP
        /\ \E c \in 1..NChecks : net[nav[i].hostname][c] = "ERROR" /\ checks[c].protocol = HTTPS
        /\ \E c \in 1..NChecks : net[nav[i].hostname][c] = "HANG"
        /\ \E c \in 1..NChecks :
              /\ net[nav[i].hostname][c] = "RESPOND"
              /\ \A b \in 1..NChecks : net[nav[i].hostname][b] = "RESPOND" => b = c
              /\ Redirected(i)
              /\ \A k \in CmdsBy(i) : cmds[k].url = resultsOf(i)[c].url

\* ------------------------------------------------------------------ C19

\* C19: in whatever order the network lets the probes of a scan complete,
\* the invocation ranks the five outcomes in candidate order with the
\* statuses the endpoints' behaviour fixes, and its ranked list, its best
\* candidate and its decision are the ones that assignment of statuses
\* gives: they do not depend on the order.
C19_OrderIndependent ==
    \A i \in Scanned :
        LET h == nav[i].hostname
            ranked == NetRanked(h)
        IN  /\ Len(resultsOf(i)) = NChecks
            /\ \A c \in 1..NChecks :
                  /\ resultsOf(i)[c].port = checks[c].port
                  /\ resultsOf(i)[c].protocol = checks[c].protocol
                  /\ resultsOf(i)[c].status = NetStatus(h, c)
            /\ sortByWeight(filterActive(resultsOf(i))) = ranked
            /\ IF Len(ranked) = 0 THEN Suppressed(i) /\ nav[i].why = "noActive"
               ELSE IF startsWith(nav[i].details.url, ranked[1].url)
               THEN Suppressed(i) /\ nav[i].why = "atBest"
               ELSE /\ Redirected(i)
                    /\ \A k \in CmdsBy(i) : cmds[k].url = ranked[1].url

\* the answer of the best candidate arrived last, after the answer of another
\* reachable candidate, and the redirect went to the best candidate
C19_Witness ==
    /\ Arrival \in DOMAIN net
    /\ \E i \in Scanned :
          LET first == net[Arrival][1]
              last == net[Arrival][Len(net[Arrival])]
          IN  /\ nav[i].status[first] \in {"OPEN", "PROBABLY_OPEN_SSL"}
              /\ nav[i].status[last] = "OPEN"
              /\ first > last
              /\ Redirected(i)
              /\ \A k \in CmdsBy(i) : cmds[k].url = resultsOf(i)[last].url

\* ------------------------------------------------------------------ C20

\* the URLs of the five candidates on hostname h
CandidateUrls(h) ==
    {checks[c].protocol \o <<"/", "/">> \o h \o <<":">> \o ToStr(checks[c].port) :
        c \in 1..NChecks}

\* C20: a step adds a key to the lock set only if it also issues one command,
\* by an invocation that ends with REDIRECT, for the tab and the hostname of
\* that key; a command's URL is the URL of one of the five candidates on the
\* hostname of its invocation; and a step in which an invocation ends with
\* SUPPRESS adds no key and issues no command.
C20_LockOnlyWithRedirect ==
    [][/\ \A key \in processedTabs' \ processedTabs :
             /\ Len(cmds') = Len(cmds) + 1
             /\ LET cmd == cmds'[Len(cmds')]
                IN  /\ nav[cmd.by].pc = "scanning"
                    /\ nav'[cmd.by].pc = "done" /\ nav'[cmd.by].outcome = "REDIRECT"
                    /\ cmd.tabId = nav'[cmd.by].details.tabId
                    /\ key = ToStr(cmd.tabId) \o <<"-">> \o nav'[cmd.by].hostname
       /\ cmds' # cmds
             => /\ Len(cmds') = Len(cmds) + 1
                /\ SubSeq(cmds', 1, Len(cmds)) = cmds
                /\ cmds'[Len(cmds')].url \in CandidateUrls(nav'[cmds'[Len(cmds')].by].hostname)
       /\ \A i \in NavIds :
             (nav[i].pc # "done" /\ nav'[i].pc = "done" /\ nav'[i].outcome = "SUPPRESS")
             => /\ processedTabs' \subseteq processedTabs
                /\ cmds' = cmds]_vars

\* the way invocation i returned
Why(i) == IF i \in Done THEN nav[i].why ELSE "NONE"

\* an invocation returned without a command while another one was suspended
\* in its scan, and that other one then redirected and locked its key, the
\* only key in the lock set
C20_Witness ==
    \E i \in Done, j \in Done :
        /\ Redirected(i) /\ i \in nav[j].during
        /\ \A m \in CmdsBy(i) : cmds[m].url \in CandidateUrls(nav[i].hostname)
        /\ Why(j) \in {"frame", "error", "notTarget", "notHttp", "noActive", "atBest"}
        /\ Suppressed(j)
        /\ processedTabs = {nav[i].lockKey}

====
